---------------------------- MODULE Spec2Model ----------------------------
(***************************************************************************)
(* Model of the seat-tracker data layer (src/src/location_tracker.py), of   *)
(* the period statistics (src/src/statistics.py), of the month view        *)
(* (src/src/calendar_view.py) and of the CLI set, get and delete handlers  *)
(* (src/src/cli.py).                                                       *)
(*                                                                         *)
(* A date is its proleptic Gregorian ordinal (datetime.date.toordinal()),  *)
(* so date arithmetic and ordering are integer arithmetic and ordering.    *)
(* A text line is a sequence of tokens: an entry line is tokenised one     *)
(* character per token, the fixed header text is kept in chunks after its  *)
(* leading "#".  A year file is a record [exists, lines].                  *)
(***************************************************************************)
EXTENDS Integers, Sequences, FiniteSets

(***************************************************************************)
(* Bounds of the model.                                                    *)
(***************************************************************************)
\* Number of consecutive dates the operator's commands may name, counted
\* from Monday 2024-12-30 (the ISO week 2025-W01 spans two calendar years).
NumDates == 7
\* Number of designations the operator's commands may name (in InputOrder).
NumDesignations == 2
\* Number of tracker operations in one run.
MaxOps == 2
\* Number of consecutive dates the codec round trip is exercised on, counted
\* from 2020-12-21 (weeks 52 and 53 of 2020, weeks 1 to 4 of 2021).
NumCodecDates == 42
\* Number of lines an operator's text editor has put below the header of a
\* year file.
MaxEditedLines == 2
\* Number of set_designation / delete_designation calls that wrote the data
\* directory a read operation finds.
NumWrites == 1
\* Largest number of days one designation has in a statistics dict that is
\* handed to the report formatters.
MaxCount == 1
\* Number of times one interactive session may call input("tracker> ").
MaxPrompts == 4

(***************************************************************************)
(* LocationDesignation                                                     *)
(***************************************************************************)
LocationDesignation ==
    <<"HOME", "LAB", "TRAVEL", "WEEKEND", "VACATION", "HOLIDAY", "OTHER">>

Designations == { LocationDesignation[i] : i \in 1..Len(LocationDesignation) }

\* designation.name, one character per token
name(designation) ==
    CASE designation = "HOME"     -> <<"H", "O", "M", "E">>
      [] designation = "LAB"      -> <<"L", "A", "B">>
      [] designation = "TRAVEL"   -> <<"T", "R", "A", "V", "E", "L">>
      [] designation = "WEEKEND"  -> <<"W", "E", "E", "K", "E", "N", "D">>
      [] designation = "VACATION" -> <<"V", "A", "C", "A", "T", "I", "O", "N">>
      [] designation = "HOLIDAY"  -> <<"H", "O", "L", "I", "D", "A", "Y">>
      [] designation = "OTHER"    -> <<"O", "T", "H", "E", "R">>

\* designation.short_code
short_code(designation) ==
    CASE designation = "HOME"     -> "H"
      [] designation = "LAB"      -> "L"
      [] designation = "TRAVEL"   -> "T"
      [] designation = "WEEKEND"  -> "W"
      [] designation = "VACATION" -> "V"
      [] designation = "HOLIDAY"  -> "X"
      [] designation = "OTHER"    -> "O"

(***************************************************************************)
(* datetime.date, as the calls of location_tracker.py use it               *)
(***************************************************************************)
_is_leap(y) == y % 4 = 0 /\ (y % 100 # 0 \/ y % 400 = 0)

_days_in_month(y, m) ==
    IF m = 2 THEN (IF _is_leap(y) THEN 29 ELSE 28)
    ELSE IF m \in {4, 6, 9, 11} THEN 30 ELSE 31

_days_before_year(y) ==
    LET p == y - 1 IN p * 365 + (p \div 4) - (p \div 100) + (p \div 400)

_days_before_month(y, m) ==
    <<0, 31, 59, 90, 120, 151, 181, 212, 243, 273, 304, 334>>[m]
        + (IF m > 2 /\ _is_leap(y) THEN 1 ELSE 0)

_ymd2ord(y, m, d) == _days_before_year(y) + _days_before_month(y, m) + d

\* date.year
year(date) ==
    LET n    == date - 1
        n400 == n \div 146097
        r400 == n % 146097
        n100 == r400 \div 36524
        r100 == r400 % 36524
        n4   == r100 \div 1461
        r4   == r100 % 1461
        n1   == r4 \div 365
        y    == n400 * 400 + 1 + n100 * 100 + n4 * 4 + n1
    IN  IF n1 = 4 \/ n100 = 4 THEN y - 1 ELSE y

\* date.month
month(date) ==
    LET y        == year(date)
        n        == date - _ymd2ord(y, 1, 1)
        estimate == (n + 50) \div 32
    IN  IF _days_before_month(y, estimate) > n THEN estimate - 1
        ELSE estimate

\* date.day
day(date) ==
    LET y == year(date)
    IN  date - _days_before_year(y) - _days_before_month(y, month(date))

\* date.weekday(): Monday = 0 ... Sunday = 6
weekday(date) == (date + 6) % 7

_isoweek1monday(y) ==
    LET firstday     == _ymd2ord(y, 1, 1)
        firstweekday == (firstday + 6) % 7
        week1monday  == firstday - firstweekday
    IN  IF firstweekday > 3 THEN week1monday + 7 ELSE week1monday

\* date.isocalendar()[1]
isocalendar_week(date) ==
    LET y    == year(date)
        week == (date - _isoweek1monday(y)) \div 7
    IN  IF week < 0
        THEN (date - _isoweek1monday(y - 1)) \div 7 + 1
        ELSE IF week >= 52 /\ date >= _isoweek1monday(y + 1)
             THEN 1
             ELSE week + 1


(***************************************************************************)
(* Text helpers: decimal formatting and reading, str.strip()               *)
(***************************************************************************)
Digits == <<"0", "1", "2", "3", "4", "5", "6", "7", "8", "9">>

IsDigit(c) == c \in {"0", "1", "2", "3", "4", "5", "6", "7", "8", "9"}

DigitValue(c) == (CHOOSE i \in 1..10 : Digits[i] = c) - 1

UpperLetters ==
    {"A", "B", "C", "D", "E", "F", "G", "H", "I", "J", "K", "L", "M",
     "N", "O", "P", "Q", "R", "S", "T", "U", "V", "W", "X", "Y", "Z"}

RECURSIVE Decimal(_)
\* the decimal digits of n >= 0, most significant first
Decimal(n) ==
    IF n < 10 THEN <<Digits[n + 1]>>
    ELSE Decimal(n \div 10) \o <<Digits[(n % 10) + 1]>>

RECURSIVE ZeroPad(_, _)
\* format(n, "0<width>d"): at least width digits, zero-filled on the left
ZeroPad(n, width) ==
    LET digits == Decimal(n)
    IN  IF Len(digits) >= width THEN digits
        ELSE <<"0">> \o ZeroPad(n, width - 1)

RECURSIVE ToInt(_)
\* int(digits)
ToInt(digits) ==
    IF digits = <<>> THEN 0
    ELSE ToInt(SubSeq(digits, 1, Len(digits) - 1)) * 10
            + DigitValue(digits[Len(digits)])

RECURSIVE strip(_)
strip(line) ==
    IF line = <<>> THEN line
    ELSE IF Head(line) = " " THEN strip(Tail(line))
    ELSE IF line[Len(line)] = " " THEN strip(SubSeq(line, 1, Len(line) - 1))
    ELSE line

\* date.isoformat(): YYYY-MM-DD
isoformat(date) ==
    ZeroPad(year(date), 4) \o <<"-">> \o ZeroPad(month(date), 2)
        \o <<"-">> \o ZeroPad(day(date), 2)

\* datetime.strptime(date_str, '%Y-%m-%d').date() on a string of the shape
\* dddd-dd-dd; ok = FALSE stands for ValueError
strptime(date_str) ==
    LET y == ToInt(SubSeq(date_str, 1, 4))
        m == ToInt(SubSeq(date_str, 6, 7))
        d == ToInt(SubSeq(date_str, 9, 10))
    IN  IF y >= 1 /\ m \in 1..12 /\ d >= 1 /\ d <= _days_in_month(y, m)
        THEN [ok |-> TRUE, date |-> _ymd2ord(y, m, d)]
        ELSE [ok |-> FALSE]

(***************************************************************************)
(* Log codec                                                               *)
(***************************************************************************)
None == [ok |-> FALSE]

\* a week number counted in blocks of seven days from 1 January
_get_week_number_from_january(date) ==
    (date - _ymd2ord(year(date), 1, 1)) \div 7 + 1

_get_week_number(date) == isocalendar_week(date)

_get_default_designation(date) ==
    IF weekday(date) \in {0, 4} THEN "HOME"
    ELSE IF weekday(date) \in {1, 2, 3} THEN "LAB"
    ELSE "WEEKEND"

\* re.match(r'^(\d{4}-\d{2}-\d{2})\|W(\d{2})\|([A-Z]+)$', line)
MatchesPattern(line) ==
    /\ Len(line) >= 16
    /\ \A i \in {1, 2, 3, 4, 6, 7, 9, 10, 13, 14} : IsDigit(line[i])
    /\ line[5] = "-"
    /\ line[8] = "-"
    /\ line[11] = "|"
    /\ line[12] = "W"
    /\ line[15] = "|"
    /\ \A i \in 16..Len(line) : line[i] \in UpperLetters

\* a parser that reads a designation name it does not know as OTHER
_parse_log_line_unknown_as_other(raw) ==
    LET line == strip(raw)
    IN  IF line = <<>> \/ Head(line) = "#" THEN None
        ELSE IF ~MatchesPattern(line) THEN None
        ELSE IF ~strptime(SubSeq(line, 1, 10)).ok THEN None
        ELSE [ok          |-> TRUE,
              date        |-> strptime(SubSeq(line, 1, 10)).date,
              designation |->
                  IF \E x \in Designations : name(x) = SubSeq(line, 16, Len(line))
                  THEN CHOOSE x \in Designations :
                            name(x) = SubSeq(line, 16, Len(line))
                  ELSE "OTHER",
              week_num    |-> ToInt(SubSeq(line, 13, 14))]

_parse_log_line(raw) ==
    LET line == strip(raw)
    IN  IF line = <<>> \/ Head(line) = "#" THEN None
        ELSE IF ~MatchesPattern(line) THEN None
        ELSE LET date_str        == SubSeq(line, 1, 10)
                 week_str        == SubSeq(line, 13, 14)
                 designation_str == SubSeq(line, 16, Len(line))
                 parsed_date     == strptime(date_str)
             IN  IF ~parsed_date.ok THEN None
                 ELSE IF \A x \in Designations : name(x) # designation_str
                      THEN None
                 ELSE [ok          |-> TRUE,
                       date        |-> parsed_date.date,
                       designation |-> CHOOSE x \in Designations :
                                           name(x) = designation_str,
                       week_num    |-> ToInt(week_str)]

\* the week number written without zero padding
_format_log_line_unpadded(date, designation) ==
    isoformat(date) \o <<"|", "W">> \o Decimal(_get_week_number(date))
        \o <<"|">> \o name(designation)

_format_log_line(date, designation) ==
    isoformat(date) \o <<"|", "W">> \o ZeroPad(_get_week_number(date), 2)
        \o <<"|">> \o name(designation)

(***************************************************************************)
(* Inputs                                                                  *)
(***************************************************************************)
FirstDate == _ymd2ord(2024, 12, 30)

Dates == FirstDate..(FirstDate + NumDates - 1)

Years == { year(d) : d \in Dates }

InputOrder ==
    <<"WEEKEND", "TRAVEL", "HOME", "LAB", "VACATION", "HOLIDAY", "OTHER">>

InputDesignations ==
    { InputOrder[i] : i \in 1..NumDesignations } \cap Designations

\* the date argument of the CLI: an ISO date, or the word TODAY
DateStrings == { isoformat(d) : d \in Dates } \cup { <<"TODAY">> }

\* the operator's answers to a [y/N] prompt
Responses == {"y", "YES", "n"}

lower(response) == IF response = "YES" THEN "yes" ELSE response

(***************************************************************************)
(* LocationTracker: the year files                                         *)
(***************************************************************************)
NoFile == [exists |-> FALSE, lines |-> <<>>]

\* an empty dict
EmptyData == [d \in {} |-> "HOME"]

\* data[date] = designation
Put(data, date, designation) ==
    [d \in DOMAIN data \cup {date} |->
        IF d = date THEN designation ELSE data[d]]

\* del data[date]
Del(data, date) == [d \in DOMAIN data \ {date} |-> data[d]]

\* open(data_file, mode) with a mode that creates or empties the file
open_truncate(fs, y, mode) ==
    [fs EXCEPT ![y] = [exists |-> TRUE, lines |-> <<>>]]

\* what open(data_file, mode) does to the year files before any write:
\* 'r' leaves the file as it is, 'w' creates it or empties it
open_(fs, y, mode) ==
    IF mode = "w" THEN [fs EXCEPT ![y] = [exists |-> TRUE, lines |-> <<>>]]
    ELSE fs

\* the year files after load_year_data(y)
load_year_data_files(fs, y) ==
    IF ~fs[y].exists THEN fs ELSE open_(fs, y, "r")

RECURSIVE LoadLines_first_wins(_, _)
\* a load loop in which the first line for a date is kept
LoadLines_first_wins(lines, data) ==
    IF lines = <<>> THEN data
    ELSE LET parsed == _parse_log_line(Head(lines))
         IN  LoadLines_first_wins(Tail(lines),
                IF parsed.ok /\ parsed.date \notin DOMAIN data
                THEN Put(data, parsed.date, parsed.designation)
                ELSE data)

RECURSIVE LoadLines(_, _)
\* the loop of load_year_data: a later line for a date replaces an earlier
LoadLines(lines, data) ==
    IF lines = <<>> THEN data
    ELSE LET parsed == _parse_log_line(Head(lines))
         IN  LoadLines(Tail(lines),
                       IF parsed.ok
                       THEN Put(data, parsed.date, parsed.designation)
                       ELSE data)

load_year_data(fs, y) ==
    IF ~fs[y].exists THEN EmptyData ELSE LoadLines(fs[y].lines, EmptyData)

RECURSIVE sorted(_)
sorted(S) ==
    IF S = {} THEN <<>>
    ELSE LET first == CHOOSE d \in S : \A e \in S : d <= e
         IN  <<first>> \o sorted(S \ {first})

\* the four comment lines and the blank line save_year_data writes first
Header(y) ==
    << <<"#", " Work Location Log for ">> \o Decimal(y),
       <<"#", " Format: YYYY-MM-DD|WXX|DESIGNATION">>,
       <<"#", " Week ends on Sunday, new week starts on Monday">>,
       <<"#", " Valid designations: HOME(H), LAB(L), TRAVEL(T), WEEKEND(W), VACATION(V), HOLIDAY(X), OTHER(O)">>,
       <<>> >>

\* the file opened in append mode: the old lines stay in front
save_year_data_append(fs, y, data) ==
    LET sorted_dates == sorted(DOMAIN data)
    IN  [fs EXCEPT ![y] =
            [exists |-> TRUE,
             lines  |-> fs[y].lines \o Header(y) \o
                        [i \in 1..Len(sorted_dates) |->
                            _format_log_line(sorted_dates[i],
                                             data[sorted_dates[i]])]]]

save_year_data(fs, y, data) ==
    LET sorted_dates == sorted(DOMAIN data)
    IN  [fs EXCEPT ![y] =
            [exists |-> TRUE,
             lines  |-> Header(y) \o
                        [i \in 1..Len(sorted_dates) |->
                            _format_log_line(sorted_dates[i],
                                             data[sorted_dates[i]])]]]

\* the weekday default returned without looking at the file
get_designation_value_default(fs, date) == _get_default_designation(date)

get_designation_value(fs, date) ==
    LET data == load_year_data(fs, year(date))
    IN  IF date \in DOMAIN data THEN data[date]
        ELSE _get_default_designation(date)

\* the weekend entries written whether or not they exist
_auto_populate_weekend_overwrite(date, data) ==
    LET week_start == date - weekday(date)
    IN  Put(Put(data, week_start + 5, "WEEKEND"), week_start + 6, "WEEKEND")

\* auto-population that also stores the weekday default of the Monday
_auto_populate_weekend_and_monday(date, data) ==
    LET week_start == date - weekday(date)
        weekend    == Put(Put(data, week_start + 5, "WEEKEND"),
                          week_start + 6, "WEEKEND")
    IN  IF week_start \in DOMAIN weekend THEN weekend
        ELSE Put(weekend, week_start, _get_default_designation(week_start))

_auto_populate_weekend(date, data) ==
    LET days_since_monday == weekday(date)
        week_start        == date - days_since_monday
        saturday          == week_start + 5
        sunday            == week_start + 6
        with_saturday     == IF saturday \notin DOMAIN data
                             THEN Put(data, saturday, "WEEKEND") ELSE data
    IN  IF sunday \notin DOMAIN with_saturday
        THEN Put(with_saturday, sunday, "WEEKEND") ELSE with_saturday

\* the dict of a set_designation that starts from an empty dict
set_designation_data_fresh(loaded, date, designation, auto_weekend) ==
    LET data == Put(EmptyData, date, designation)
    IN  IF auto_weekend THEN _auto_populate_weekend(date, data) ELSE data

\* the dict set_designation passes to save_year_data
set_designation_data(loaded, date, designation, auto_weekend) ==
    LET data == Put(loaded, date, designation)
    IN  IF auto_weekend THEN _auto_populate_weekend(date, data) ELSE data

\* the year files when set_designation files every date under its own year
set_designation_files_by_year(fs, date, designation, auto_weekend) ==
    LET data == set_designation_data(load_year_data(fs, year(date)),
                                     date, designation, auto_weekend)
        part(y) == { d \in DOMAIN data : year(d) = y }
        merged(y) ==
            [d \in DOMAIN load_year_data(fs, y) \cup part(y) |->
                IF d \in part(y) THEN data[d] ELSE load_year_data(fs, y)[d]]
    IN  [y \in DOMAIN fs |->
            IF y = year(date) \/ part(y) # {}
            THEN save_year_data(fs, y, merged(y))[y]
            ELSE fs[y]]

\* the year files after set_designation
set_designation_files(fs, date, designation, auto_weekend) ==
    save_year_data(fs, year(date),
        set_designation_data(load_year_data(fs, year(date)),
                             date, designation, auto_weekend))

\* the file rewritten also when the date is absent
delete_designation_outcome_always_saves(fs, date) ==
    LET data == load_year_data(fs, year(date))
    IN  [files  |-> save_year_data(fs, year(date), Del(data, date)),
         result |-> date \in DOMAIN data]

\* the delete that also takes back the week's weekend entries
delete_designation_outcome_week(fs, date) ==
    LET data == load_year_data(fs, year(date))
        week_start == date - weekday(date)
    IN  IF date \in DOMAIN data
        THEN [files  |-> save_year_data(fs, year(date),
                            Del(Del(Del(data, date), week_start + 5),
                                week_start + 6)),
              result |-> TRUE]
        ELSE [files |-> fs, result |-> FALSE]

\* the year files after delete_designation and its return value
delete_designation_outcome(fs, date) ==
    LET data == load_year_data(fs, year(date))
    IN  IF date \in DOMAIN data
        THEN [files  |-> save_year_data(fs, year(date), Del(data, date)),
              result |-> TRUE]
        ELSE [files |-> fs, result |-> FALSE]

(***************************************************************************)
(* LocationTracker.validate_data                                           *)
(***************************************************************************)
\* the errors of one line when the year check is skipped after a week error
LineErrors_elif(line_num, raw, y) ==
    LET line   == strip(raw)
        parsed == _parse_log_line(line)
    IN  IF line = <<>> \/ Head(line) = "#" THEN <<>>
        ELSE IF ~parsed.ok
        THEN << [line_num |-> line_num, kind |-> "Invalid format",
                 line |-> line] >>
        ELSE IF parsed.week_num # _get_week_number(parsed.date)
        THEN << [line_num |-> line_num, kind |-> "Week number mismatch",
                 date |-> parsed.date,
                 expected |-> _get_week_number(parsed.date),
                 got |-> parsed.week_num] >>
        ELSE IF year(parsed.date) # y
        THEN << [line_num |-> line_num, kind |-> "doesn't belong",
                 date |-> parsed.date, year |-> y] >>
        ELSE <<>>

\* the errors validate_data appends for the line numbered line_num
LineErrors(line_num, raw, y) ==
    LET line   == strip(raw)
        parsed == _parse_log_line(line)
    IN  IF line = <<>> \/ Head(line) = "#" THEN <<>>
        ELSE IF ~parsed.ok
        THEN << [line_num |-> line_num, kind |-> "Invalid format",
                 line |-> line] >>
        ELSE (IF parsed.week_num # _get_week_number(parsed.date)
              THEN << [line_num |-> line_num, kind |-> "Week number mismatch",
                       date |-> parsed.date,
                       expected |-> _get_week_number(parsed.date),
                       got |-> parsed.week_num] >>
              ELSE <<>>)
             \o
             (IF year(parsed.date) # y
              THEN << [line_num |-> line_num, kind |-> "doesn't belong",
                       date |-> parsed.date, year |-> y] >>
              ELSE <<>>)

RECURSIVE ValidateLines(_, _, _)
\* the loop of validate_data: enumerate(f, 1)
ValidateLines(lines, line_num, y) ==
    IF line_num > Len(lines) THEN <<>>
    ELSE LineErrors(line_num, lines[line_num], y)
            \o ValidateLines(lines, line_num + 1, y)

\* the year files after validate_data(y)
validate_data_files(fs, y) ==
    IF ~fs[y].exists THEN fs ELSE open_(fs, y, "r")

validate_data(fs, y) ==
    IF ~fs[y].exists THEN <<>> ELSE ValidateLines(fs[y].lines, 1, y)

(***************************************************************************)
(* The date loops of get_date_range_data and get_period_stats              *)
(***************************************************************************)
\* years_data with the list of the load_year_data calls made
NoYearsData == [data |-> [z \in {} |-> EmptyData], loads |-> <<>>]

YearsDataWith(years, fs, y) ==
    [data |-> [z \in DOMAIN years.data \cup {y} |->
                    IF z = y THEN load_year_data(fs, y) ELSE years.data[z]],
     loads |-> Append(years.loads, y)]

\* years_data when the year is loaded again for every date
years_data_lookup_reload(years, fs, y) == YearsDataWith(years, fs, y)

\* if year not in years_data: years_data[year] = load_year_data(year)
years_data_lookup(years, fs, y) ==
    IF y \in DOMAIN years.data THEN years ELSE YearsDataWith(years, fs, y)

RECURSIVE RangeLoop(_, _, _, _, _)
RangeLoop(fs, current_date, end_date, years, result) ==
    IF current_date > end_date
    THEN [result |-> result, loads |-> years.loads]
    ELSE LET y  == year(current_date)
             ys == years_data_lookup(years, fs, y)
         IN  RangeLoop(fs, current_date + 1, end_date, ys,
                Put(result, current_date,
                    IF current_date \in DOMAIN ys.data[y]
                    THEN ys.data[y][current_date]
                    ELSE _get_default_designation(current_date)))

\* result: the returned dict; loads: the years load_year_data was called for
get_date_range_data(fs, start_date, end_date) ==
    RangeLoop(fs, start_date, end_date, NoYearsData, EmptyData)

RECURSIVE LoadsFiles(_, _)
\* the year files after the load_year_data calls of a loop
LoadsFiles(fs, loads) ==
    IF loads = <<>> THEN fs
    ELSE LoadsFiles(load_year_data_files(fs, Head(loads)), Tail(loads))

get_date_range_data_files(fs, start_date, end_date) ==
    LoadsFiles(fs, get_date_range_data(fs, start_date, end_date).loads)

(***************************************************************************)
(* statistics.py: LocationStatistics                                       *)
(***************************************************************************)
\* Counter(data.values()), read with counts.get(designation, 0)
_count_designations(data) ==
    [x \in Designations |-> Cardinality({ d \in DOMAIN data : data[d] = x })]

\* n / d rounded to an integer, ties to even
RoundHalfEven(n, d) ==
    LET q == n \div d
        r == n % d
    IN  IF 2 * r > d THEN q + 1
        ELSE IF 2 * r < d THEN q
        ELSE IF q % 2 = 0 THEN q ELSE q + 1

\* f"{(count / total) * 100:.1f}%"
_format_percentage(count, total) ==
    IF total = 0 THEN <<"0", ".", "0", "%">>
    ELSE LET tenths == RoundHalfEven(count * 1000, total)
         IN  Decimal(tenths \div 10) \o <<".">> \o Decimal(tenths % 10)
                \o <<"%">>

RECURSIVE StatsLoop(_, _, _, _, _)
StatsLoop(fs, current_date, end_date, years, actual_entries) ==
    IF current_date > end_date
    THEN [actual_entries |-> actual_entries, loads |-> years.loads]
    ELSE LET y  == year(current_date)
             ys == years_data_lookup(years, fs, y)
         IN  StatsLoop(fs, current_date + 1, end_date, ys,
                IF current_date \in DOMAIN ys.data[y]
                THEN Put(actual_entries, current_date, ys.data[y][current_date])
                ELSE actual_entries)

\* the stats dict built from the entries that were counted
StatsOf(start_date, end_date, actual_entries) ==
    LET counts      == _count_designations(actual_entries)
        actual_days == Cardinality(DOMAIN actual_entries)
    IN  [start_date     |-> start_date,
         end_date       |-> end_date,
         requested_days |-> (end_date - start_date) + 1,
         actual_days    |-> actual_days,
         total_days     |-> actual_days,
         counts         |-> counts,
         percentages    |-> [x \in Designations |->
                                _format_percentage(counts[x], actual_days)]]

\* statistics that count the weekday defaults as entries
get_period_stats_with_defaults(fs, start_date, end_date) ==
    StatsOf(start_date, end_date,
            get_date_range_data(fs, start_date, end_date).result)

\* statistics read from the year file of start_date alone
get_period_stats_start_year(fs, start_date, end_date) ==
    LET data == load_year_data(fs, year(start_date))
    IN  StatsOf(start_date, end_date,
            [d \in DOMAIN data \cap (start_date..end_date) |-> data[d]])

get_period_stats(fs, start_date, end_date) ==
    StatsOf(start_date, end_date,
            StatsLoop(fs, start_date, end_date, NoYearsData, EmptyData)
                .actual_entries)

get_period_stats_files(fs, start_date, end_date) ==
    LoadsFiles(fs, StatsLoop(fs, start_date, end_date, NoYearsData, EmptyData)
                        .loads)

(***************************************************************************)
(* statistics.py: format_stats_report and generate_work_days_summary.      *)
(* A line of a report is a sequence of tokens: fixed text in chunks,       *)
(* numbers, dates and names one character per token.                       *)
(***************************************************************************)
description(designation) ==
    CASE designation = "HOME"     -> "Work From Home"
      [] designation = "LAB"      -> "Work From Lab"
      [] designation = "TRAVEL"   -> "Work Travel"
      [] designation = "WEEKEND"  -> "Weekend"
      [] designation = "VACATION" -> "Vacation"
      [] designation = "HOLIDAY"  -> "Holiday"
      [] designation = "OTHER"    -> "Other"

\* len(designation.description)
DescriptionLen(designation) ==
    CASE designation = "HOME"     -> 14
      [] designation = "LAB"      -> 13
      [] designation = "TRAVEL"   -> 11
      [] designation = "WEEKEND"  -> 7
      [] designation = "VACATION" -> 8
      [] designation = "HOLIDAY"  -> 7
      [] designation = "OTHER"    -> 5

Blanks(n) == [i \in 1..n |-> " "]

\* f"{text:>{width}}" for a text of one character per token
RightAlign(text, width) ==
    IF Len(text) >= width THEN text ELSE Blanks(width - Len(text)) \o text

\* f"{text:{width}s}" for a text of one character per token
LeftAlign(text, width) ==
    IF Len(text) >= width THEN text ELSE text \o Blanks(width - Len(text))

RECURSIVE sorted_by_count_ties_reversed(_, _)
\* a descending sort that puts the later of two equal counts first
sorted_by_count_ties_reversed(designations, counts) ==
    IF designations = <<>> THEN <<>>
    ELSE LET at == CHOOSE i \in 1..Len(designations) :
                    /\ \A j \in 1..Len(designations) :
                            counts[designations[j]] <= counts[designations[i]]
                    /\ \A j \in (i + 1)..Len(designations) :
                            counts[designations[j]] < counts[designations[i]]
         IN  <<designations[at]>> \o
             sorted_by_count_ties_reversed(
                SubSeq(designations, 1, at - 1)
                    \o SubSeq(designations, at + 1, Len(designations)),
                counts)

RECURSIVE sorted_by_count(_, _)
\* sorted(designations, key=lambda d: counts[d.name], reverse=True): the
\* sort is stable, also in reverse, so equal counts keep their order
sorted_by_count(designations, counts) ==
    IF designations = <<>> THEN <<>>
    ELSE LET at == CHOOSE i \in 1..Len(designations) :
                    /\ \A j \in 1..Len(designations) :
                            counts[designations[j]] <= counts[designations[i]]
                    /\ \A j \in 1..(i - 1) :
                            counts[designations[j]] < counts[designations[i]]
         IN  <<designations[at]>> \o
             sorted_by_count(
                SubSeq(designations, 1, at - 1)
                    \o SubSeq(designations, at + 1, Len(designations)),
                counts)

\* one row of the breakdown table
BreakdownRow(stats, designation) ==
    <<" (", short_code(designation), ") ", description(designation)>>
        \o Blanks(IF DescriptionLen(designation) + 5 >= 20 THEN 0
                  ELSE 20 - (DescriptionLen(designation) + 5))
        \o <<" Count: ">>
        \o RightAlign(Decimal(stats.counts[designation]), 4)
        \o <<"  |  ">>
        \o RightAlign(stats.percentages[designation], 6)

format_stats_report(stats) ==
    LET requested == stats.requested_days
        actual    == stats.actual_days
        sorted_designations == sorted_by_count(LocationDesignation, stats.counts)
    IN  << <<"Work Location Statistics (">> \o Decimal(requested)
                \o <<" days)">>,
           <<"Period: ">> \o isoformat(stats.start_date) \o <<" to ">>
                \o isoformat(stats.end_date) >>
        \o (IF actual < requested
            THEN << <<"Data Coverage: ">> \o Decimal(actual) \o <<"/">>
                        \o Decimal(requested) \o <<" days (">>
                        \o _format_percentage(actual, requested) \o <<")">>,
                    <<"Note: Statistics based on ">> \o Decimal(actual)
                        \o <<" days with actual data entries">> >>
            ELSE << <<"Total Days: ">> \o Decimal(actual) >>)
        \o << <<>>,
              <<"Breakdown (percentage of all ">> \o Decimal(actual)
                    \o <<" days):">>,
              [i \in 1..50 |-> "-"] >>
        \o [i \in 1..Len(sorted_designations) |->
                BreakdownRow(stats, sorted_designations[i])]
        \o << [i \in 1..50 |-> "-"] >>

\* the two lines written whatever the number of work days
CombinedLines_unguarded(lt_count, lth_count, work_days) ==
    << <<"   Lab + Travel: ">> \o RightAlign(Decimal(lt_count), 2)
            \o <<"/">> \o Decimal(work_days) \o <<" (">>
            \o _format_percentage(lt_count, work_days) \o <<")">>,
       <<"Lab+Travel+Home: ">> \o RightAlign(Decimal(lth_count), 2)
            \o <<"/">> \o Decimal(work_days) \o <<" (">>
            \o _format_percentage(lth_count, work_days) \o <<")">> >>

\* the lines "Lab + Travel" and "Lab+Travel+Home" of the work days summary
CombinedLines(lt_count, lth_count, work_days) ==
    IF work_days > 0
    THEN << <<"   Lab + Travel: ">> \o RightAlign(Decimal(lt_count), 2)
                \o <<"/">> \o Decimal(work_days) \o <<" (">>
                \o _format_percentage(lt_count, work_days) \o <<")">>,
            <<"Lab+Travel+Home: ">> \o RightAlign(Decimal(lth_count), 2)
                \o <<"/">> \o Decimal(work_days) \o <<" (">>
                \o _format_percentage(lth_count, work_days) \o <<")">> >>
    ELSE <<>>

generate_work_days_summary(stats) ==
    LET work_designations == <<"HOME", "LAB", "TRAVEL">>
        work_days     == stats.counts["HOME"] + stats.counts["LAB"]
                            + stats.counts["TRAVEL"]
        total_days    == stats.total_days
        non_work_days == stats.counts["WEEKEND"] + stats.counts["VACATION"]
                            + stats.counts["HOLIDAY"]
        WorkLine(des) ==
            IF work_days > 0
            THEN << <<"  ">> \o LeftAlign(name(des), 6) \o <<": ">>
                        \o RightAlign(Decimal(stats.counts[des]), 3)
                        \o <<" (">>
                        \o _format_percentage(stats.counts[des], work_days)
                        \o <<")">> >>
            ELSE <<>>
        lt_count  == stats.counts["LAB"] + stats.counts["TRAVEL"]
        lth_count == stats.counts["HOME"] + lt_count
    IN  << <<"Work Days Summary (">> \o isoformat(stats.start_date)
                \o <<" to ">> \o isoformat(stats.end_date) \o <<")">>,
           [i \in 1..40 |-> "-"],
           <<"Total Work Days: ">> \o Decimal(work_days) \o <<"/">>
                \o Decimal(total_days) \o <<" (">>
                \o _format_percentage(work_days, total_days)
                \o <<" of all days)">>,
           <<>>,
           <<"Work Breakdown (percentage of ">> \o Decimal(work_days)
                \o <<" work days only):">> >>
        \o WorkLine(work_designations[1])
        \o WorkLine(work_designations[2])
        \o WorkLine(work_designations[3])
        \o << <<>>,
              <<"  Non-Work Days: ">> \o RightAlign(Decimal(non_work_days), 2)
                \o <<"/">> \o Decimal(total_days) \o <<" (">>
                \o _format_percentage(non_work_days, total_days)
                \o <<")">> >>
        \o CombinedLines(lt_count, lth_count, work_days)

(***************************************************************************)
(* calendar_view.py: CalendarView.render_month                             *)
(* A line of the output is a sequence of cells, a cell a sequence of       *)
(* tokens; ESC stands for the character \033.                              *)
(***************************************************************************)
COLOR_RESET == "ESC[0m"

COLOR_BOLD == "ESC[1m"

COLOR_WEEK == "ESC[36m"

Underline == "ESC[4m"

_get_designation_color(designation, use_color) ==
    IF ~use_color THEN ""
    ELSE CASE designation = "HOME"     -> "ESC[32m"
           [] designation = "LAB"      -> "ESC[34m"
           [] designation = "TRAVEL"   -> "ESC[35m"
           [] designation = "WEEKEND"  -> "ESC[90m"
           [] designation = "VACATION" -> "ESC[33m"
           [] designation = "HOLIDAY"  -> "ESC[31m"
           [] designation = "OTHER"    -> "ESC[37m"

_get_designation_display(designation) == short_code(designation)

month_name ==
    <<"January", "February", "March", "April", "May", "June", "July",
      "August", "September", "October", "November", "December">>

MonthNameLen == <<7, 8, 5, 5, 3, 4, 4, 6, 9, 7, 8, 8>>

Spaces(n) == [i \in 1..n |-> " "]

\* f"{month_name} {year}".center(26)
CenteredHeader(y, m) ==
    LET pad  == IF MonthNameLen[m] + 1 + Len(Decimal(y)) >= 26 THEN 0
                ELSE 26 - (MonthNameLen[m] + 1 + Len(Decimal(y)))
        left == pad \div 2
    IN  Spaces(left) \o <<month_name[m], " ">> \o Decimal(y)
            \o Spaces(pad - left)

\* calendar.monthcalendar(year, month): weeks from Monday, 0 outside the month
monthcalendar(y, m) ==
    LET first == _ymd2ord(y, m, 1)
        ndays == _days_in_month(y, m)
        weeks == (weekday(first) + ndays + 6) \div 7
        dayno(k, i) == (k - 1) * 7 + i - weekday(first)
    IN  [k \in 1..weeks |->
            [i \in 1..7 |->
                IF dayno(k, i) \in 1..ndays THEN dayno(k, i) ELSE 0]]

\* f"{day_num:2d}"
TwoWide(n) == IF n < 10 THEN <<" ">> \o Decimal(n) ELSE Decimal(n)

\* the designation cell that shows the weekday default of a day without entry
des_cell_with_default(actual_date, year_data, use_color) ==
    LET designation == IF actual_date \in DOMAIN year_data
                       THEN year_data[actual_date]
                       ELSE _get_default_designation(actual_date)
    IN  <<" ", _get_designation_display(designation), " ">>

\* the designation letter under the day, blank without entry
des_cell(actual_date, year_data, use_color) ==
    IF actual_date \in DOMAIN year_data
    THEN IF use_color
         THEN <<" ", _get_designation_color(year_data[actual_date], use_color),
                _get_designation_display(year_data[actual_date]),
                COLOR_RESET, " ">>
         ELSE <<" ", _get_designation_display(year_data[actual_date]), " ">>
    ELSE <<" ", " ", " ">>

\* the day number, bold and underlined when the date is today
day_cell(actual_date, today, use_color) ==
    IF actual_date = today
    THEN <<COLOR_BOLD, Underline>> \o TwoWide(day(actual_date))
            \o <<COLOR_RESET, " ">>
    ELSE TwoWide(day(actual_date)) \o <<" ">>

\* the dates of one week of the grid, from the first day that is not 0
week_dates(y, m, week) ==
    LET first_month_day == week[CHOOSE i \in 1..7 :
                                /\ week[i] # 0
                                /\ \A j \in 1..(i - 1) : week[j] = 0]
        anchor_date     == _ymd2ord(y, m, first_month_day)
    IN  [day_idx \in 1..7 |->
            anchor_date + ((day_idx - 1) - weekday(anchor_date))]

\* the two lines of one week when every cell is looked up in the data of
\* the rendered year
WeekLines_rendered_year(fs, y, m, week, today, use_color) ==
    LET dates    == week_dates(y, m, week)
        week_num == isocalendar_week(dates[1])
        week_prefix == IF use_color
                       THEN <<COLOR_WEEK, "W">> \o ZeroPad(week_num, 2)
                                \o <<COLOR_RESET, " ">>
                       ELSE <<"W">> \o ZeroPad(week_num, 2) \o <<" ">>
    IN  << <<week_prefix>> \o
                [i \in 1..7 |-> day_cell(dates[i], today, use_color)],
           <<Spaces(4)>> \o
                [i \in 1..7 |-> des_cell(dates[i], load_year_data(fs, y),
                                         use_color)] >>

\* the two lines of one week: day numbers, then designations
WeekLines(fs, y, m, week, today, use_color) ==
    LET dates    == week_dates(y, m, week)
        week_num == isocalendar_week(dates[1])
        prev_year_data == IF m = 1 THEN load_year_data(fs, y - 1)
                          ELSE EmptyData
        next_year_data == IF m = 12 THEN load_year_data(fs, y + 1)
                          ELSE EmptyData
        year_data(d) == IF year(d) < y THEN prev_year_data
                        ELSE IF year(d) > y THEN next_year_data
                        ELSE load_year_data(fs, y)
        week_prefix == IF use_color
                       THEN <<COLOR_WEEK, "W">> \o ZeroPad(week_num, 2)
                                \o <<COLOR_RESET, " ">>
                       ELSE <<"W">> \o ZeroPad(week_num, 2) \o <<" ">>
    IN  << <<week_prefix>> \o
                [i \in 1..7 |-> day_cell(dates[i], today, use_color)],
           <<Spaces(4)>> \o
                [i \in 1..7 |-> des_cell(dates[i], year_data(dates[i]),
                                         use_color)] >>

RECURSIVE JoinWeeks(_, _, _, _, _, _)
JoinWeeks(fs, y, m, weeks, today, use_color) ==
    IF weeks = <<>> THEN <<>>
    ELSE WeekLines(fs, y, m, Head(weeks), today, use_color)
            \o JoinWeeks(fs, y, m, Tail(weeks), today, use_color)

\* today is the value of date.today() during the call; highlight_day, an
\* Optional[int], is {} for None and {n} for the day n
render_month(fs, y, m, highlight_day, today, use_color) ==
    << <<CenteredHeader(y, m)>>,
       <<>>,
       << <<"    Mo Tu We Th Fr Sa Su">> >>,
       << [i \in 1..26 |-> "-"] >> >>
        \o JoinWeeks(fs, y, m, monthcalendar(y, m), today, use_color)

\* render_current_month(highlight_today) on the day today
render_current_month(fs, today, highlight_today, use_color) ==
    render_month(fs, year(today), month(today),
                 IF highlight_today THEN {day(today)} ELSE {},
                 today, use_color)

\* the year files after render_month(year, month)
render_month_files(fs, y, m) ==
    LoadsFiles(fs, <<y>> \o (IF m = 1 THEN <<y - 1>> ELSE <<>>)
                        \o (IF m = 12 THEN <<y + 1>> ELSE <<>>))

(***************************************************************************)
(* cli.py: parse_date, handle_delete, handle_set_location and handle_get    *)
(***************************************************************************)
NonZeroDigits == { Digits[i] : i \in 2..10 }

\* datetime.strptime(date_str, '%Y-%m-%d').date(); ok = FALSE stands for
\* ValueError.  _strptime matches the text against
\*   (?P<Y>\d\d\d\d)-(?P<m>1[0-2]|0[1-9]|[1-9])-(?P<d>3[01]|[12]\d|0[1-9]|[1-9]| [1-9])
\* from its start, refuses text that goes on after the match, and date()
\* refuses the year 0 and a day the month does not have.
strptime_ymd(date_str) ==
    LET n == Len(date_str)
        at(i) == IF i <= n THEN date_str[i] ELSE ""
        year_ok == /\ \A i \in 1..4 : IsDigit(at(i))
                   /\ at(5) = "-"
        month_len ==
            IF /\ \/ at(6) = "1" /\ at(7) \in {"0", "1", "2"}
                  \/ at(6) = "0" /\ at(7) \in NonZeroDigits
               /\ at(8) = "-"
            THEN 2
            ELSE IF at(6) \in NonZeroDigits /\ at(7) = "-" THEN 1
            ELSE 0
        p == 7 + month_len
        day_len ==
            IF \/ at(p) = "3" /\ at(p + 1) \in {"0", "1"}
               \/ at(p) \in {"1", "2"} /\ IsDigit(at(p + 1))
               \/ at(p) = "0" /\ at(p + 1) \in NonZeroDigits
            THEN 2
            ELSE IF at(p) \in NonZeroDigits THEN 1
            ELSE IF at(p) = " " /\ at(p + 1) \in NonZeroDigits THEN 2
            ELSE 0
        y == ToInt(SubSeq(date_str, 1, 4))
        m == ToInt(SubSeq(date_str, 6, 5 + month_len))
        d == ToInt(strip(SubSeq(date_str, p, p + day_len - 1)))
    IN  IF /\ year_ok
           /\ month_len > 0
           /\ day_len > 0
           /\ p + day_len - 1 = n
           /\ y >= 1
           /\ d <= _days_in_month(y, m)
        THEN [ok |-> TRUE, date |-> _ymd2ord(y, m, d)]
        ELSE [ok |-> FALSE]

\* parse_date that answers date.today() where strptime raises ValueError
parse_date_or_today(date_str, today) ==
    IF strptime_ymd(date_str).ok THEN strptime_ymd(date_str)
    ELSE [ok |-> TRUE, date |-> today]

parse_date(date_str, today) ==
    IF date_str = <<"TODAY">> THEN [ok |-> TRUE, date |-> today]
    ELSE strptime_ymd(date_str)

\* date.today() is read only for the word TODAY
TodayChoices(date_str) ==
    IF date_str = <<"TODAY">> THEN Dates ELSE {FirstDate}

\* input() is called only when the entry exists and force is not set;
\* otherwise no answer is read
ResponseChoices(fs, date_str, today, force) ==
    LET date_obj == parse_date(date_str, today)
    IN  IF /\ date_obj.ok
           /\ date_obj.date \in DOMAIN load_year_data(fs, year(date_obj.date))
           /\ ~force
        THEN Responses
        ELSE {""}

\* the year files after handle_delete, its exit code and the date it parsed
handle_delete_outcome(fs, date_str, today, force, response) ==
    LET date_obj == parse_date(date_str, today)
    IN  IF ~date_obj.ok
        THEN [files |-> fs, result |-> 1, date |-> 0,
              message |-> "Error: Invalid date format"]
        ELSE LET data == load_year_data(fs, year(date_obj.date))
                 deleted == delete_designation_outcome(fs, date_obj.date)
             IN  IF date_obj.date \notin DOMAIN data
                 THEN [files |-> fs, result |-> 1, date |-> date_obj.date,
                       message |-> "Error: No entry found"]
                 ELSE IF ~force /\ lower(response) \notin {"y", "yes"}
                 THEN [files |-> fs, result |-> 0, date |-> date_obj.date,
                       message |-> "Cancelled."]
                 ELSE [files  |-> deleted.files,
                       result |-> IF deleted.result THEN 0 ELSE 1,
                       date   |-> date_obj.date,
                       message |-> IF deleted.result THEN "Deleted entry"
                                   ELSE "Error: Failed to delete entry"]

\* the year files after handle_set_location, its exit code, the date it
\* parsed and the last message it printed
handle_set_location_outcome(fs, designation, date_str, today, force, response) ==
    LET date_obj == parse_date(date_str, today)
        prompted == /\ date_obj.ok
                    /\ ~force
                    /\ date_obj.date
                            \in DOMAIN load_year_data(fs, year(date_obj.date))
    IN  IF ~date_obj.ok
        THEN [files |-> fs, result |-> 1, date |-> 0, prompted |-> FALSE,
              message |-> "Error: Invalid date format"]
        ELSE IF prompted /\ lower(response) \notin {"y", "yes"}
        THEN [files |-> load_year_data_files(fs, year(date_obj.date)),
              result |-> 0, date |-> date_obj.date, prompted |-> TRUE,
              message |-> "Cancelled."]
        ELSE [files |-> set_designation_files(fs, date_obj.date, designation,
                                              TRUE),
              result |-> 0, date |-> date_obj.date, prompted |-> prompted,
              message |-> "Set"]

\* the year files after handle_get, its exit code, the date it parsed and
\* the designation it printed
handle_get_outcome(fs, date_str, today) ==
    LET date_obj == parse_date(date_str, today)
    IN  IF ~date_obj.ok
        THEN [files |-> fs, result |-> 1, date |-> 0,
              message |-> "Error: Invalid date format"]
        ELSE [files |-> load_year_data_files(fs, year(date_obj.date)),
              result |-> 0, date |-> date_obj.date,
              message |-> get_designation_value(fs, date_obj.date)]

(***************************************************************************)
(* State                                                                   *)
(***************************************************************************)
VARIABLES
    files,       \* the data directory: year -> [exists, lines]
    prev,        \* the data directory before the last operation
    last,        \* the last operation, its arguments and what it returned
    ops,         \* number of operations performed so far
    invocation,  \* concurrent set_designation calls: position and locals
    saves,       \* the concurrent calls that have rewritten the file, in order
    codec,       \* the codec round trip: input, formatted line, parsed tuple
    interactive  \* the interactive session: loop position, flags, history

vars == <<files, prev, last, ops, invocation, saves, codec, interactive>>

EmptyDirectory == [y \in Years |-> NoFile]

Op(op, date, designation, auto_weekend, result) ==
    [op |-> op, date |-> date, designation |-> designation,
     auto_weekend |-> auto_weekend, result |-> result]

NoOp == Op("none", 0, "-", FALSE, "-")

Processes == {1, 2}

NotStarted ==
    [pc |-> "start", date |-> 0, designation |-> "-", auto_weekend |-> FALSE,
     data |-> EmptyData, loaded_after |-> <<>>]

\* no InteractiveMode object has been constructed
NoSession ==
    [pc |-> "none", running |-> FALSE, force_mode |-> FALSE, prompts |-> 0,
     event |-> "none", seen |-> {}]

CodecIdle ==
    [phase |-> "idle", date |-> 0, designation |-> "-", line |-> <<>>,
     parsed |-> None]

(***************************************************************************)
(* The tracker used by one operator, one operation after another           *)
(***************************************************************************)
Init ==
    /\ files = EmptyDirectory
    /\ prev = EmptyDirectory
    /\ last = NoOp
    /\ ops = 0
    /\ invocation = [p \in Processes |-> NotStarted]
    /\ saves = <<>>
    /\ codec = CodecIdle
    /\ interactive = NoSession

Record(op) ==
    /\ prev' = files
    /\ last' = op
    /\ ops' = ops + 1
    /\ UNCHANGED <<invocation, saves, codec, interactive>>

set_designation(date, designation, auto_weekend) ==
    /\ ops < MaxOps
    /\ files' = set_designation_files(files, date, designation, auto_weekend)
    /\ Record(Op("set", date, designation, auto_weekend, "-"))

delete_designation(date) ==
    /\ ops < MaxOps
    /\ LET outcome == delete_designation_outcome(files, date)
       IN  /\ files' = outcome.files
           /\ Record(Op("delete", date, "-", FALSE, outcome.result))

get_designation(date) ==
    /\ ops < MaxOps
    /\ files' = load_year_data_files(files, year(date))
    /\ Record(Op("get", date, "-", FALSE, get_designation_value(files, date)))

handle_delete(date_str, force) ==
    /\ ops < MaxOps
    /\ \E today \in TodayChoices(date_str) :
         \E response \in ResponseChoices(files, date_str, today, force) :
           LET outcome == handle_delete_outcome(files, date_str, today,
                                                force, response)
           IN  /\ files' = outcome.files
               /\ Record(Op("handle_delete", outcome.date, "-", FALSE,
                            outcome.result))

Next ==
    \/ \E date \in Dates, designation \in InputDesignations,
          auto_weekend \in BOOLEAN :
            set_designation(date, designation, auto_weekend)
    \/ \E date \in Dates : delete_designation(date)
    \/ \E date \in Dates : get_designation(date)
    \/ \E date_str \in DateStrings, force \in BOOLEAN :
            handle_delete(date_str, force)

Spec == Init /\ [][Next]_vars

(***************************************************************************)
(* Two set_designation calls running against the same data directory.      *)
(* Line 183 (the full-file read) and line 190 (the full-file rewrite) are  *)
(* separate steps; nothing locks the file between them.                    *)
(***************************************************************************)
InitRace ==
    /\ files = EmptyDirectory
    /\ prev = EmptyDirectory
    /\ last = NoOp
    /\ ops = 0
    /\ invocation = [p \in Processes |-> NotStarted]
    /\ saves = <<>>
    /\ codec = CodecIdle
    /\ interactive = NoSession

\* set_designation, line 183: data = self.load_year_data(year)
race_load(p, date, designation, auto_weekend) ==
    /\ invocation[p].pc = "start"
    /\ invocation' = [invocation EXCEPT ![p] =
            [pc |-> "loaded", date |-> date, designation |-> designation,
             auto_weekend |-> auto_weekend,
             data |-> load_year_data(files, year(date)),
             loaded_after |-> saves]]
    /\ UNCHANGED <<files, prev, last, ops, saves, codec, interactive>>

\* set_designation, lines 184-190: mutate the loaded dict and rewrite the file
race_save(p) ==
    /\ invocation[p].pc = "loaded"
    /\ files' = save_year_data(files, year(invocation[p].date),
                    set_designation_data(invocation[p].data,
                                         invocation[p].date,
                                         invocation[p].designation,
                                         invocation[p].auto_weekend))
    /\ invocation' = [invocation EXCEPT ![p].pc = "done"]
    /\ saves' = Append(saves, p)
    /\ UNCHANGED <<prev, last, ops, codec, interactive>>

NextRace ==
    \/ \E p \in Processes, date \in Dates, designation \in InputDesignations,
          auto_weekend \in BOOLEAN :
            race_load(p, date, designation, auto_weekend)
    \/ \E p \in Processes : race_save(p)

SpecRace == InitRace /\ [][NextRace]_vars

(***************************************************************************)
(* The codec round trip: format a (date, designation), parse the line.     *)
(***************************************************************************)
CodecDates ==
    _ymd2ord(2020, 12, 21)..(_ymd2ord(2020, 12, 21) + NumCodecDates - 1)

InitCodec ==
    /\ files = EmptyDirectory
    /\ prev = EmptyDirectory
    /\ last = NoOp
    /\ ops = 0
    /\ invocation = [p \in Processes |-> NotStarted]
    /\ saves = <<>>
    /\ \E date \in CodecDates, designation \in Designations :
            codec = [phase |-> "input", date |-> date,
                     designation |-> designation, line |-> <<>>,
                     parsed |-> None]
    /\ interactive = NoSession

codec_format ==
    /\ codec.phase = "input"
    /\ codec' = [codec EXCEPT
                    !.phase = "formatted",
                    !.line  = _format_log_line(codec.date, codec.designation)]
    /\ UNCHANGED <<files, prev, last, ops, invocation, saves, interactive>>

codec_parse ==
    /\ codec.phase = "formatted"
    /\ codec' = [codec EXCEPT
                    !.phase  = "parsed",
                    !.parsed = _parse_log_line(codec.line)]
    /\ UNCHANGED <<files, prev, last, ops, invocation, saves, interactive>>

NextCodec == codec_format \/ codec_parse

SpecCodec == InitCodec /\ [][NextCodec]_vars

(***************************************************************************)
(* A year file that was edited by hand: below the header the tracker       *)
(* wrote stand lines of any kind, and one tracker operation follows.       *)
(***************************************************************************)
EntryLine(date_str, week_str, designation_str) ==
    date_str \o <<"|", "W">> \o week_str \o <<"|">> \o designation_str

EditedLines ==
    { EntryLine(isoformat(FirstDate), <<"0", "1">>, name("LAB")),
      EntryLine(isoformat(FirstDate), <<"0", "1">>, name("HOME")),
      EntryLine(isoformat(FirstDate + 1), <<"0", "2">>, name("HOME")),
      EntryLine(isoformat(FirstDate + 2), <<"0", "1">>, name("TRAVEL")),
      EntryLine(isoformat(FirstDate + 3), <<"0", "7">>, name("LAB")),
      EntryLine(isoformat(FirstDate), <<"1">>, name("LAB")),
      EntryLine(isoformat(FirstDate), <<"0", "1">>,
                <<"O", "F", "F", "I", "C", "E">>),
      EntryLine(<<"2", "0", "2", "4", "-", "0", "2", "-", "3", "0">>,
                <<"0", "9">>, name("HOME")),
      <<"#", " note">>,
      <<" ">> }

RECURSIVE EditedBodies(_)
\* the sequences of at most n edited lines
EditedBodies(n) ==
    IF n = 0 THEN { <<>> }
    ELSE LET shorter == EditedBodies(n - 1)
         IN  shorter \cup
             { Append(body, line) : body \in shorter, line \in EditedLines }

EditedDirectories ==
    { [EmptyDirectory EXCEPT
            ![y] = [exists |-> TRUE, lines |-> Header(y) \o body]] :
        y \in Years, body \in EditedBodies(MaxEditedLines) }

InitEdited ==
    /\ files \in EditedDirectories
    /\ prev = files
    /\ last = NoOp
    /\ ops = 0
    /\ invocation = [p \in Processes |-> NotStarted]
    /\ saves = <<>>
    /\ codec = CodecIdle
    /\ interactive = NoSession

validate(y) ==
    /\ ops = 0
    /\ files' = validate_data_files(files, y)
    /\ Record([op |-> "validate", year |-> y,
               result |-> validate_data(files, y)])

edited_set_designation(date, designation, auto_weekend) ==
    /\ ops = 0
    /\ set_designation(date, designation, auto_weekend)

edited_delete_designation(date) ==
    /\ ops = 0
    /\ delete_designation(date)

NextEdited ==
    \/ \E y \in Years : validate(y)
    \/ \E date \in Dates, designation \in InputDesignations,
          auto_weekend \in BOOLEAN :
            edited_set_designation(date, designation, auto_weekend)
    \/ \E date \in Dates : edited_delete_designation(date)

SpecEdited == InitEdited /\ [][NextEdited]_vars

(***************************************************************************)
(* One read operation on a data directory the tracker has written.         *)
(***************************************************************************)
RECURSIVE WrittenDirectories(_)
\* the directories after at most n writing calls, from the empty directory
WrittenDirectories(n) ==
    IF n = 0 THEN { EmptyDirectory }
    ELSE LET before == WrittenDirectories(n - 1)
         IN  before
             \cup { set_designation_files(fs, date, designation, auto_weekend) :
                        fs \in before, date \in Dates,
                        designation \in InputDesignations,
                        auto_weekend \in BOOLEAN }
             \cup { delete_designation_outcome(fs, date).files :
                        fs \in before, date \in Dates }

\* the months a date of Dates lies in
RenderMonths == { <<year(d), month(d)>> : d \in Dates }

InitRead ==
    /\ files \in WrittenDirectories(NumWrites)
    /\ prev = files
    /\ last = NoOp
    /\ ops = 0
    /\ invocation = [p \in Processes |-> NotStarted]
    /\ saves = <<>>
    /\ codec = CodecIdle
    /\ interactive = NoSession

load(y) ==
    /\ ops = 0
    /\ files' = load_year_data_files(files, y)
    /\ Record([op |-> "load", year |-> y, result |-> load_year_data(files, y)])

read_designation(date) ==
    /\ ops = 0
    /\ get_designation(date)

date_range(start_date, end_date) ==
    /\ ops = 0
    /\ files' = get_date_range_data_files(files, start_date, end_date)
    /\ Record([op |-> "range", start_date |-> start_date,
               end_date |-> end_date,
               result |-> get_date_range_data(files, start_date, end_date).result,
               loads |-> get_date_range_data(files, start_date, end_date).loads])

period_stats(start_date, end_date) ==
    /\ ops = 0
    /\ files' = get_period_stats_files(files, start_date, end_date)
    /\ Record([op |-> "stats", start_date |-> start_date,
               end_date |-> end_date,
               result |-> get_period_stats(files, start_date, end_date)])

render(y, m, highlight_day, today, use_color) ==
    /\ ops = 0
    /\ files' = render_month_files(files, y, m)
    /\ Record([op |-> "render", year |-> y, month |-> m,
               highlight_day |-> highlight_day, today |-> today,
               use_color |-> use_color,
               result |-> render_month(files, y, m, highlight_day, today,
                                       use_color)])

render_current(today, highlight_today, use_color) ==
    /\ ops = 0
    /\ files' = render_month_files(files, year(today), month(today))
    /\ Record([op |-> "render_current", year |-> year(today),
               month |-> month(today), highlight_today |-> highlight_today,
               today |-> today, use_color |-> use_color,
               result |-> render_current_month(files, today, highlight_today,
                                               use_color)])

NextRead ==
    \/ \E y \in Years : validate(y)
    \/ \E y \in Years : load(y)
    \/ \E date \in Dates : read_designation(date)
    \/ \E start_date \in Dates, end_date \in Dates :
            date_range(start_date, end_date)
    \/ \E start_date \in Dates, end_date \in Dates :
            period_stats(start_date, end_date)
    \/ \E ym \in RenderMonths, today \in {FirstDate, FirstDate + NumDates - 1},
          use_color \in BOOLEAN :
            \E highlight_day \in {{}, {day(today)}} :
                render(ym[1], ym[2], highlight_day, today, use_color)
    \/ \E today \in {FirstDate, FirstDate + NumDates - 1},
          highlight_today \in BOOLEAN, use_color \in BOOLEAN :
            render_current(today, highlight_today, use_color)

SpecRead == InitRead /\ [][NextRead]_vars

(***************************************************************************)
(* One CLI command (set, delete or get) on a data directory the tracker    *)
(* has written.                                                            *)
(***************************************************************************)
\* a date written without zero padding, as in 2025-1-4
Unpadded(d) ==
    Decimal(year(d)) \o <<"-">> \o Decimal(month(d)) \o <<"-">>
        \o Decimal(day(d))

\* texts that strptime refuses: a day the month does not have, slashes, a
\* two-digit year, text after the date, nothing at all, the word in lower case
RefusedStrings ==
    { <<"2", "0", "2", "5", "-", "0", "2", "-", "3", "0">>,
      <<"2", "0", "2", "5", "/", "0", "1", "/", "0", "4">>,
      <<"2", "5", "-", "0", "1", "-", "0", "4">>,
      <<"2", "0", "2", "5", "-", "0", "1", "-", "0", "4", "x">>,
      <<>>,
      <<"today">> }

CliDateStrings ==
    DateStrings \cup { Unpadded(d) : d \in Dates } \cup RefusedStrings

InitCli == InitRead

cli_set(designation, date_str, force) ==
    /\ ops = 0
    /\ \E today \in TodayChoices(date_str) :
         \E response \in ResponseChoices(files, date_str, today, force) :
           LET outcome == handle_set_location_outcome(files, designation,
                                date_str, today, force, response)
           IN  /\ files' = outcome.files
               /\ Record([op |-> "handle_set", date_str |-> date_str,
                          designation |-> designation, force |-> force,
                          today |-> today, response |-> response,
                          date |-> outcome.date, result |-> outcome.result,
                          prompted |-> outcome.prompted,
                          message |-> outcome.message])

cli_delete(date_str, force) ==
    /\ ops = 0
    /\ \E today \in TodayChoices(date_str) :
         \E response \in ResponseChoices(files, date_str, today, force) :
           LET outcome == handle_delete_outcome(files, date_str, today,
                                                force, response)
           IN  /\ files' = outcome.files
               /\ Record([op |-> "handle_delete", date_str |-> date_str,
                          force |-> force, today |-> today,
                          response |-> response, date |-> outcome.date,
                          result |-> outcome.result,
                          message |-> outcome.message])

cli_get(date_str) ==
    /\ ops = 0
    /\ \E today \in TodayChoices(date_str) :
           LET outcome == handle_get_outcome(files, date_str, today)
           IN  /\ files' = outcome.files
               /\ Record([op |-> "handle_get", date_str |-> date_str,
                          today |-> today, date |-> outcome.date,
                          result |-> outcome.result,
                          message |-> outcome.message])

NextCli ==
    \/ \E designation \in InputDesignations, date_str \in CliDateStrings,
          force \in BOOLEAN :
            cli_set(designation, date_str, force)
    \/ \E date_str \in CliDateStrings, force \in BOOLEAN :
            cli_delete(date_str, force)
    \/ \E date_str \in CliDateStrings : cli_get(date_str)

SpecCli == InitCli /\ [][NextCli]_vars

(***************************************************************************)
(* Vocabulary of the properties                                            *)
(***************************************************************************)
\* d has an explicit entry: d is a key of load_year_data(d's own year)
Explicit(fs, d) == d \in DOMAIN load_year_data(fs, year(d))

Entry(fs, d) == load_year_data(fs, year(d))[d]

Saturday(d) == d - weekday(d) + 5

Sunday(d) == d - weekday(d) + 6

\* the weekday rule as the specification words it, Monday first
DefaultByWeekday(d) ==
    <<"HOME", "LAB", "LAB", "LAB", "HOME", "WEEKEND", "WEEKEND">>[weekday(d) + 1]

\* ISO 8601: the week of a date is numbered by its Thursday's place in the
\* Thursday's year
IsoWeek(d) ==
    LET thursday == d - weekday(d) + 3
    IN  (thursday - _ymd2ord(year(thursday), 1, 1)) \div 7 + 1

\* the last operation put a Weekend entry for d into some year file
WroteWeekend(d) ==
    \E y \in Years :
        /\ d \in DOMAIN load_year_data(files, y)
        /\ load_year_data(files, y)[d] = "WEEKEND"
        /\ d \notin DOMAIN load_year_data(prev, y)

(***************************************************************************)
(* Properties of the sequential tracker (Spec)                             *)
(***************************************************************************)
\* C1: every entry stored in the file <Y>.log has a date of calendar year Y.
\* Violated: set_designation(2024-12-30, x, auto_weekend = True) stores the
\* week's Saturday 2025-01-04 and Sunday 2025-01-05 in 2024.log.
C1_EntriesInOwnYearFile ==
    \A y \in Years : \A d \in DOMAIN load_year_data(files, y) : year(d) = y

\* C2: after set_designation(date, x) with auto_weekend enabled, the Saturday
\* and the Sunday of date's ISO week are keys of load_year_data(their own
\* year), and hold Weekend when they had no explicit entry before and are not
\* date itself.  Violated for a date whose week-end lies in the next year.
C2_WeekendExplicitAfterSet ==
    (last.op = "set" /\ last.auto_weekend) =>
        \A wd \in {Saturday(last.date), Sunday(last.date)} :
            /\ Explicit(files, wd)
            /\ (wd # last.date /\ ~Explicit(prev, wd)) =>
                    Entry(files, wd) = "WEEKEND"

\* C3: set_designation with auto_weekend enabled leaves an existing explicit
\* entry of the week's Saturday or Sunday as it was, and writes Weekend for a
\* weekend day only when that day had no explicit entry before the call.
\* Violated: with 2025-01-04 explicit in 2025.log, setting 2024-12-30 writes
\* a Weekend entry for 2025-01-04 into 2024.log.
C3_AutoWeekendNonDestructive ==
    (last.op = "set" /\ last.auto_weekend) =>
        \A wd \in {Saturday(last.date), Sunday(last.date)} \ {last.date} :
            /\ Explicit(prev, wd) =>
                    (Explicit(files, wd) /\ Entry(files, wd) = Entry(prev, wd))
            /\ WroteWeekend(wd) => ~Explicit(prev, wd)

\* C4: immediately after set_designation(d, x), with or without
\* auto_weekend, get_designation(d) returns x.
C4_GetAfterSet ==
    last.op = "set" =>
        get_designation_value(files, last.date) = last.designation

\* C4 witness: a Saturday or Sunday that held another designation is set,
\* with auto_weekend enabled, to something other than Weekend.
C4_Witness ==
    /\ last.op = "set"
    /\ last.auto_weekend
    /\ weekday(last.date) >= 5
    /\ last.designation # "WEEKEND"
    /\ Explicit(prev, last.date)
    /\ Entry(prev, last.date) # last.designation

\* C6: delete_designation(d) for a date with no explicit entry in d's year
\* file returns False and leaves every year file as it was (none is created);
\* handle_delete then exits with code 1 and leaves every year file as it was.
C6_DeleteAbsent ==
    /\ (last.op = "delete" /\ ~Explicit(prev, last.date)) =>
            (last.result = FALSE /\ files = prev)
    /\ (last.op = "handle_delete" /\ ~Explicit(prev, last.date)) =>
            (last.result = 1 /\ files = prev)

\* C6 witness: a delete of an absent date, once on a year that has no file
\* and a year file with entries exists elsewhere.
C6_Witness ==
    /\ last.op = "delete"
    /\ last.result = FALSE
    /\ ~files[year(last.date)].exists
    /\ \E y \in Years : DOMAIN load_year_data(files, y) # {}

C8_GetDesignation ==
    last.op = "get" =>
        last.result = IF Explicit(files, last.date)
                      THEN Entry(files, last.date)
                      ELSE DefaultByWeekday(last.date)

\* C8 witness: a get that returns an explicit entry written by the operation
\* before it, different from the weekday default.
C8_Witness ==
    /\ last.op = "get"
    /\ ops = 2
    /\ Explicit(files, last.date)
    /\ last.result # DefaultByWeekday(last.date)

\* C9: for every year file the tracker wrote, save_year_data(year,
\* load_year_data(year)) writes the same lines again: four comment lines, a
\* blank line, then the entry lines in ascending date order.
C9_ResaveIdentical ==
    \A y \in Years :
        files[y].exists =>
            /\ save_year_data(files, y, load_year_data(files, y))[y] = files[y]
            /\ Len(files[y].lines) >= 5
            /\ \A i \in 1..4 : Head(files[y].lines[i]) = "#"
            /\ files[y].lines[5] = <<>>
            /\ \A i \in 6..Len(files[y].lines) :
                    /\ _parse_log_line(files[y].lines[i]).ok
                    /\ i > 6 => _parse_log_line(files[y].lines[i - 1]).date
                                    < _parse_log_line(files[y].lines[i]).date

\* C9 witness: a year file with entry lines of two calendar years.
C9_Witness ==
    \E y \in Years :
        /\ files[y].exists
        /\ Len(files[y].lines) >= 8
        /\ \E d, e \in DOMAIN load_year_data(files, y) : year(d) # year(e)

(***************************************************************************)
(* Properties of the concurrent calls (SpecRace)                           *)
(***************************************************************************)
RaceDone == \A p \in Processes : invocation[p].pc = "done"

\* C5: when two set_designation calls for different dates of one year both
\* load before either rewrites, the last writer's full rewrite wins: the
\* final file holds exactly the last writer's dict, and the other call's date
\* is in it only as a Weekend entry of the last writer's own auto-weekend
\* population.
C5_LastWriterWins ==
    (/\ RaceDone
     /\ invocation[1].date # invocation[2].date
     /\ year(invocation[1].date) = year(invocation[2].date)
     /\ invocation[saves[2]].loaded_after = <<>>) =>
        LET w     == invocation[saves[2]]
            o     == invocation[saves[1]]
            final == load_year_data(files, year(w.date))
        IN  /\ final = set_designation_data(w.data, w.date, w.designation,
                                            w.auto_weekend)
            /\ o.date \in DOMAIN final =>
                    /\ w.auto_weekend
                    /\ o.date \in {Saturday(w.date), Sunday(w.date)}
                    /\ final[o.date] = "WEEKEND"

\* C5 witness: both calls have returned and the first writer's date has no
\* entry in the final file.
C5_LostUpdate ==
    /\ RaceDone
    /\ invocation[1].date # invocation[2].date
    /\ year(invocation[1].date) = year(invocation[2].date)
    /\ invocation[saves[1]].date
            \notin DOMAIN load_year_data(files, year(invocation[1].date))

(***************************************************************************)
(* Properties of the codec (SpecCodec)                                     *)
(***************************************************************************)
\* C10: parsing the line _format_log_line(date, designation) yields exactly
\* (date, designation, ISO week of date), and the week field of the line is
\* the zero-padded two-digit ISO week of the date.
C10_RoundTrip ==
    /\ codec.phase \in {"formatted", "parsed"} =>
            /\ Len(codec.line) >= 16
            /\ SubSeq(codec.line, 12, 14) = <<"W">> \o ZeroPad(IsoWeek(codec.date), 2)
            /\ Len(ZeroPad(IsoWeek(codec.date), 2)) = 2
    /\ codec.phase = "parsed" =>
            codec.parsed = [ok |-> TRUE, date |-> codec.date,
                            designation |-> codec.designation,
                            week_num |-> IsoWeek(codec.date)]

\* C10 witness: a date of January whose ISO week is week 53 of the year
\* before has made the round trip.
C10_Witness ==
    /\ codec.phase = "parsed"
    /\ codec.parsed.ok
    /\ month(codec.date) = 1
    /\ codec.parsed.week_num = 53

(***************************************************************************)
(* Further properties of the sequential tracker (Spec)                     *)
(***************************************************************************)
\* C19: starting from an empty data directory, after any sequence of
\* set_designation and delete_designation calls validate_data(Y) returns an
\* empty list for every year Y.  Violated: after set_designation(2024-12-30,
\* x, auto_weekend = True), validate_data(2024) reports the lines of
\* 2025-01-04 and 2025-01-05 as not belonging in 2024.log.
C19_ValidatorAcceptsOwnWrites ==
    \A y \in Years : validate_data(files, y) = <<>>

\* C20: set_designation(date, ...) and delete_designation(date) leave the
\* file of every year other than date.year exactly as it was.
C20_OnlyOwnYearFileWritten ==
    last.op \in {"set", "delete"} =>
        \A y \in Years : y # year(last.date) => files[y] = prev[y]

\* C20 witness: a date is set with auto_weekend enabled whose week-end lies
\* in the next calendar year, and that year's file exists with entries.
C20_Witness ==
    /\ last.op = "set"
    /\ last.auto_weekend
    /\ year(Saturday(last.date)) # year(last.date)
    /\ files[year(Saturday(last.date))].exists
    /\ DOMAIN load_year_data(files, year(Saturday(last.date))) # {}

(***************************************************************************)
(* Properties of a hand-edited year file (SpecEdited)                      *)
(***************************************************************************)
\* the faults a line of a year file can have
FaultyWeek(line) ==
    /\ _parse_log_line(line).ok
    /\ _parse_log_line(line).week_num # IsoWeek(_parse_log_line(line).date)

Misplaced(line, y) ==
    /\ _parse_log_line(line).ok
    /\ year(_parse_log_line(line).date) # y

IsEntryText(line) == strip(line) # <<>> /\ Head(strip(line)) # "#"

Unparsed(line) == IsEntryText(line) /\ ~_parse_log_line(line).ok

\* C11: in a year file written by save_year_data, after set_designation or a
\* delete_designation that returned True, every line below the header is an
\* entry line whose week number is the ISO week of its date, whatever week
\* number the file held for that date before.
C11_WrittenWeekIsIsoWeek ==
    (last.op = "set" \/ (last.op = "delete" /\ last.result = TRUE)) =>
        LET lines == files[year(last.date)].lines
        IN  \A i \in 6..Len(lines) :
                /\ _parse_log_line(lines[i]).ok
                /\ _parse_log_line(lines[i]).week_num
                        = IsoWeek(_parse_log_line(lines[i]).date)

\* C11 witness: the file held a line with a wrong week number for a date
\* that the rewrite keeps.
C11_Witness ==
    /\ last.op = "set"
    /\ \E i \in 1..Len(prev[year(last.date)].lines) :
            LET line == prev[year(last.date)].lines[i]
            IN  /\ FaultyWeek(line)
                /\ _parse_log_line(line).date # last.date
                /\ _parse_log_line(line).date
                        \in DOMAIN load_year_data(files, year(last.date))

\* C12: validate_data(year) reports, under the physical 1-based number of the
\* line, a week-mismatch error for every parsed line whose stored week is not
\* the ISO week of its date and a misplaced-entry error for every parsed line
\* whose date is of another year (both for a line with both faults), and it
\* returns the empty list exactly when no entry line has a fault.
C12_ValidateReports ==
    last.op = "validate" =>
        LET lines  == files[last.year].lines
            errors == last.result
            Reported(i, kind) ==
                \E k \in 1..Len(errors) :
                    errors[k].line_num = i /\ errors[k].kind = kind
        IN  /\ \A i \in 1..Len(lines) :
                    /\ FaultyWeek(lines[i]) => Reported(i, "Week number mismatch")
                    /\ Misplaced(lines[i], last.year) => Reported(i, "doesn't belong")
            /\ (errors = <<>>) <=>
                    \A i \in 1..Len(lines) :
                        /\ ~Unparsed(lines[i])
                        /\ ~FaultyWeek(lines[i])
                        /\ ~Misplaced(lines[i], last.year)

\* C12 witness: line 7, below the header and one edited line, has a wrong
\* week number and a date of another year, and both errors name line 7.
C12_Witness ==
    /\ last.op = "validate"
    /\ \E j, k \in 1..Len(last.result) :
            /\ last.result[j].line_num = 7
            /\ last.result[k].line_num = 7
            /\ last.result[j].kind = "Week number mismatch"
            /\ last.result[k].kind = "doesn't belong"

(***************************************************************************)
(* Properties of the read operations (SpecRead)                            *)
(***************************************************************************)
\* the dates of [start, end] that have an explicit entry
ExplicitIn(fs, start_date, end_date) ==
    { d \in start_date..end_date : Explicit(fs, d) }

RECURSIVE SumCounts(_, _)
\* the sum of the counts of the first n designations
SumCounts(counts, n) ==
    IF n = 0 THEN 0
    ELSE counts[LocationDesignation[n]] + SumCounts(counts, n - 1)

\* C13: for a range [start, end] in which no date has an explicit entry,
\* get_period_stats returns actual_days = 0, the count 0 and the percentage
\* "0.0%" for every designation, although get_designation returns the
\* weekday default for every date of the range.
C13_StatsExcludeDefaults ==
    (last.op = "stats"
        /\ ExplicitIn(files, last.start_date, last.end_date) = {}) =>
        /\ last.result.actual_days = 0
        /\ \A x \in Designations :
                /\ last.result.counts[x] = 0
                /\ last.result.percentages[x] = <<"0", ".", "0", "%">>
        /\ \A d \in last.start_date..last.end_date :
                get_designation_value(files, d) = DefaultByWeekday(d)

\* C13 witness: statistics over several days without an entry, asked of a
\* directory that holds entries for other days.
C13_Witness ==
    /\ last.op = "stats"
    /\ last.start_date < last.end_date
    /\ ExplicitIn(files, last.start_date, last.end_date) = {}
    /\ \E d \in Dates : Explicit(files, d)

\* C14: get_period_stats(start, end) with start <= end returns
\* requested_days = end - start + 1, actual_days = the number of dates of
\* [start, end] with an explicit entry in their own year's file, and for each
\* designation the number of those entries that carry it; the 7 counts sum to
\* actual_days, and actual_days <= requested_days.
C14_StatsCounts ==
    (last.op = "stats" /\ last.start_date <= last.end_date) =>
        LET entries == ExplicitIn(files, last.start_date, last.end_date)
        IN  /\ last.result.requested_days
                    = last.end_date - last.start_date + 1
            /\ last.result.actual_days = Cardinality(entries)
            /\ \A x \in Designations :
                    last.result.counts[x]
                        = Cardinality({ d \in entries : Entry(files, d) = x })
            /\ DOMAIN last.result.counts = Designations
            /\ SumCounts(last.result.counts, Len(LocationDesignation))
                    = last.result.actual_days
            /\ last.result.actual_days <= last.result.requested_days

\* C14 witness: a range over the turn of the year with entries in the file
\* of the second year, and with days that have no entry.
C14_Witness ==
    /\ last.op = "stats"
    /\ year(last.start_date) < year(last.end_date)
    /\ \E d \in ExplicitIn(files, last.start_date, last.end_date) :
            year(d) = year(last.end_date)
    /\ last.result.actual_days < last.result.requested_days

\* C15: get_date_range_data(start, end) returns a map whose keys are exactly
\* the dates of [start, end] (none when start > end), each mapped to the
\* explicit entry of the date's own year file if there is one and to the
\* weekday default otherwise, and load_year_data is called exactly once for
\* each calendar year that occurs in the range.
C15_RangeData ==
    last.op = "range" =>
        /\ DOMAIN last.result = last.start_date..last.end_date
        /\ last.start_date > last.end_date => DOMAIN last.result = {}
        /\ \A d \in DOMAIN last.result :
                last.result[d] = IF Explicit(files, d) THEN Entry(files, d)
                                 ELSE DefaultByWeekday(d)
        /\ \A y \in { year(d) : d \in last.start_date..last.end_date } :
                Cardinality({ k \in 1..Len(last.loads) : last.loads[k] = y }) = 1
        /\ \A k \in 1..Len(last.loads) :
                last.loads[k] \in { year(d) : d \in last.start_date..last.end_date }

\* C15 witness: a range with two dates of each of two years, holding an
\* explicit entry and a date without one.
C15_Witness ==
    /\ last.op = "range"
    /\ year(last.start_date + 1) < year(last.end_date - 1)
    /\ \E d \in DOMAIN last.result : Explicit(files, d)
    /\ \E d \in DOMAIN last.result : ~Explicit(files, d)

ReadOps ==
    {"validate", "load", "get", "range", "stats", "render", "render_current"}

\* C16: validate_data, load_year_data, get_designation, get_date_range_data,
\* get_period_stats and render_month never create, modify or delete a year
\* file: every year file is the same before and after the call.
C16_ReadsLeaveFiles ==
    last.op \in ReadOps => \A y \in Years : files[y] = prev[y]

\* C16 witness: a read that loaded both years, one with a file that holds
\* entries and one without a file.
C16_Witness ==
    /\ last.op \in {"range", "stats", "render"}
    /\ last.op \in {"range", "stats"} =>
            year(last.start_date) < year(last.end_date)
    /\ \E y \in Years : prev[y].exists /\ DOMAIN load_year_data(prev, y) # {}
    /\ \E y \in Years : ~prev[y].exists

\* the date and the designation cell at row k, column i of a rendered month
GridDate(y, m, k, i) ==
    _ymd2ord(y, m, 1) - weekday(_ymd2ord(y, m, 1)) + 7 * (k - 1) + (i - 1)

GridRows(rendered) == (Len(rendered) - 4) \div 2

GridDesCell(rendered, k, i) == rendered[4 + 2 * k][i + 1]

ShowsLetter(cell) ==
    \E j \in 1..Len(cell) : \E x \in Designations : cell[j] = short_code(x)

\* C17: render_month shows a designation letter in the cell of a day only
\* when that date has an explicit entry; the cell of a date without explicit
\* entry is blank although get_designation returns a weekday default for it.
C17_RenderExplicitOnly ==
    last.op = "render" =>
        \A k \in 1..GridRows(last.result), i \in 1..7 :
            LET d    == GridDate(last.year, last.month, k, i)
                cell == GridDesCell(last.result, k, i)
            IN  /\ ShowsLetter(cell) => Explicit(files, d)
                /\ ~Explicit(files, d) =>
                        /\ cell = <<" ", " ", " ">>
                        /\ get_designation_value(files, d) = DefaultByWeekday(d)

\* C17 witness: a rendered month with a letter under one day and a blank
\* cell under a day of the same week.
C17_Witness ==
    /\ last.op = "render"
    /\ \E k \in 1..GridRows(last.result) : \E i, j \in 1..7 :
            /\ ShowsLetter(GridDesCell(last.result, k, i))
            /\ GridDesCell(last.result, k, j) = <<" ", " ", " ">>

(***************************************************************************)
(* Properties of the CLI handlers (SpecCli)                                *)
(***************************************************************************)
CliOps == {"handle_set", "handle_delete", "handle_get"}

\* the text is a date in the form YYYY-MM-DD: four, two and two digits that
\* name a day of the calendar
IsYYYYMMDD(date_str) ==
    /\ Len(date_str) = 10
    /\ \A i \in {1, 2, 3, 4, 6, 7, 9, 10} : IsDigit(date_str[i])
    /\ date_str[5] = "-" /\ date_str[8] = "-"
    /\ LET y == ToInt(SubSeq(date_str, 1, 4))
           m == ToInt(SubSeq(date_str, 6, 7))
           d == ToInt(SubSeq(date_str, 9, 10))
       IN  y >= 1 /\ m \in 1..12 /\ d \in 1..31
            /\ (m \in {4, 6, 9, 11} => d <= 30)
            /\ (m = 2 => d <= IF y % 4 = 0 /\ (y % 100 # 0 \/ y % 400 = 0)
                              THEN 29 ELSE 28)

\* the ways of writing a month or a day that strptime reads: with or
\* without a leading zero, a day of one digit also after a blank
MonthSpellings(m) == {Decimal(m), ZeroPad(m, 2)}

DaySpellings(d) ==
    {Decimal(d), ZeroPad(d, 2)}
        \cup (IF d < 10 THEN {<<" ">> \o Decimal(d)} ELSE {})

\* the texts the handlers take for a date: the word TODAY, or a four-digit
\* year from 0001, a month and a day of that month, joined by hyphens
AcceptedDateString(date_str) ==
    \/ date_str = <<"TODAY">>
    \/ /\ Len(date_str) >= 5
       /\ \A i \in 1..4 : IsDigit(date_str[i])
       /\ date_str[5] = "-"
       /\ ToInt(SubSeq(date_str, 1, 4)) >= 1
       /\ \E m \in 1..12 : \E ms \in MonthSpellings(m) :
            /\ SubSeq(date_str, 6, 6 + Len(ms)) = ms \o <<"-">>
            /\ \E d \in 1..(IF m \in {4, 6, 9, 11} THEN 30
                            ELSE IF m # 2 THEN 31
                            ELSE IF IsYYYYMMDD(SubSeq(date_str, 1, 4)
                                    \o <<"-", "0", "2", "-", "2", "9">>)
                            THEN 29 ELSE 28) :
                SubSeq(date_str, 7 + Len(ms), Len(date_str))
                    \in DaySpellings(d)

\* C18 as stated: when the set, delete or get handler is given a date string
\* that is not a valid YYYY-MM-DD date, it reports the error, returns exit
\* code 1 and no year file is created or modified.  Violated: the handlers
\* take the word TODAY, and 2025-1-4 for 2025-01-04; set then writes a file
\* and returns 0.
C18_InvalidDateRejected ==
    (last.op \in CliOps /\ ~IsYYYYMMDD(last.date_str)) =>
        /\ last.message = "Error: Invalid date format"
        /\ last.result = 1
        /\ \A y \in Years : files[y] = prev[y]

\* C18 amended: when the set, delete or get handler is given a date string
\* that is neither the word TODAY nor a spelling strptime('%Y-%m-%d') reads
\* as a day of the calendar, it reports the error, returns exit code 1 and
\* no year file is created or modified.
C18_RefusedDateAborts ==
    (last.op \in CliOps /\ ~AcceptedDateString(last.date_str)) =>
        /\ last.message = "Error: Invalid date format"
        /\ last.result = 1
        /\ \A y \in Years : files[y] = prev[y]

\* C18 witness: set is given 30 February with force, in a directory that
\* holds a year file, and returns 1.
C18_Witness ==
    /\ last.op = "handle_set"
    /\ last.force
    /\ last.date_str = <<"2", "0", "2", "5", "-", "0", "2", "-", "3", "0">>
    /\ last.result = 1
    /\ \E y \in Years : prev[y].exists

(***************************************************************************)
(* Frame of the writes (Spec)                                              *)
(***************************************************************************)
\* the dates that year file y holds an entry for
FileDates(fs, y) == DOMAIN load_year_data(fs, y)

\* the dates set_designation may give an entry
MayGain(date, auto_weekend) ==
    {date} \cup (IF auto_weekend THEN {Saturday(date), Sunday(date)} ELSE {})

\* the dates that have an entry in some year file after the call and had
\* none in that file before
Gained ==
    UNION { FileDates(files, y) \ FileDates(prev, y) : y \in Years }

\* C21: set_designation(date, x) keeps every other entry: each date other
\* than date that had an entry keeps its designation; the only dates that
\* can gain an entry are date and, with auto_weekend, the Saturday and the
\* Sunday of date's ISO week, so one call adds at most 3 entries.
C21_SetPreservesOthers ==
    last.op = "set" =>
        /\ \A y \in Years : \A d \in FileDates(prev, y) \ {last.date} :
                /\ d \in FileDates(files, y)
                /\ load_year_data(files, y)[d] = load_year_data(prev, y)[d]
        /\ Gained \subseteq MayGain(last.date, last.auto_weekend)
        /\ IsoWeek(Saturday(last.date)) = IsoWeek(last.date)
        /\ IsoWeek(Sunday(last.date)) = IsoWeek(last.date)
        /\ Cardinality(Gained) <= 3

\* C21 witness: a call on a weekday with auto_weekend that adds 3 entries
\* to a file that held an entry of another date.
C21_Witness ==
    /\ last.op = "set" /\ last.auto_weekend
    /\ Cardinality(Gained) = 3
    /\ \E d \in FileDates(prev, year(last.date)) :
            d \notin MayGain(last.date, TRUE)

\* C22: from an empty data directory, every entry of a year file is a
\* (date, designation) pair passed to set_designation, or a Weekend entry on
\* the Saturday or Sunday of the ISO week of a date passed to set_designation
\* with auto_weekend; a default returned by get_designation is never
\* written.  Stated for each operation: an entry of a file after the
\* operation was in that file before it, or is the pair of this
\* set_designation call, or is such a Weekend entry of this call.
C22_OnlySetEntries ==
    \A y \in Years : \A d \in FileDates(files, y) :
        \/ /\ d \in FileDates(prev, y)
           /\ load_year_data(files, y)[d] = load_year_data(prev, y)[d]
        \/ /\ last.op = "set"
           /\ d = last.date
           /\ load_year_data(files, y)[d] = last.designation
        \/ /\ last.op = "set" /\ last.auto_weekend
           /\ d \in {Saturday(last.date), Sunday(last.date)}
           /\ IsoWeek(d) = IsoWeek(last.date)
           /\ load_year_data(files, y)[d] = "WEEKEND"

\* C22 witness: get_designation returns the weekday default of a working
\* day that has no entry, in a directory where a set_designation with
\* auto_weekend has stored entries, and the day still has no entry.
C22_Witness ==
    /\ last.op = "get"
    /\ weekday(last.date) < 5
    /\ last.result = DefaultByWeekday(last.date)
    /\ \A y \in Years : last.date \notin FileDates(files, y)
    /\ \E y \in Years : Saturday(last.date) \in FileDates(files, y)

(***************************************************************************)
(* Malformed lines of a hand-edited year file (SpecEdited)                 *)
(***************************************************************************)
FailsFormat(line) == IsEntryText(line) /\ ~MatchesPattern(strip(line))

UnknownDesignation(line) ==
    /\ IsEntryText(line) /\ MatchesPattern(strip(line))
    /\ \A x \in Designations :
            name(x) # SubSeq(strip(line), 16, Len(strip(line)))

UnparseableDate(line) ==
    /\ IsEntryText(line) /\ MatchesPattern(strip(line))
    /\ ~IsYYYYMMDD(SubSeq(strip(line), 1, 10))

Malformed(line) ==
    FailsFormat(line) \/ UnknownDesignation(line) \/ UnparseableDate(line)

WellFormed(line) == IsEntryText(line) /\ ~Malformed(line)

NotMalformed(line) == ~Malformed(line)

\* the year files with the malformed lines of file y taken out
WithoutMalformed(fs, y) ==
    [fs EXCEPT ![y].lines = SelectSeq(fs[y].lines, NotMalformed)]

\* C23: a non-blank, non-comment line that fails the line format, names an
\* unknown designation or carries an unparseable date contributes no entry to
\* load_year_data, while every well-formed line of the file still loads, and
\* validate_data reports exactly one "Invalid format" error under the number
\* of that line and no other error for it.
C23_MalformedLineSkipped ==
    last.op = "validate" =>
        LET lines  == files[last.year].lines
            errors == last.result
            data   == load_year_data(files, last.year)
        IN  /\ data = load_year_data(WithoutMalformed(files, last.year),
                                     last.year)
            /\ \A i \in 1..Len(lines) : WellFormed(lines[i]) =>
                    /\ _parse_log_line(lines[i]).date \in DOMAIN data
                    /\ \E j \in i..Len(lines) :
                        /\ WellFormed(lines[j])
                        /\ _parse_log_line(lines[j]).date
                                = _parse_log_line(lines[i]).date
                        /\ _parse_log_line(lines[j]).designation
                                = data[_parse_log_line(lines[i]).date]
            /\ Cardinality(DOMAIN data)
                    <= Cardinality({ i \in 1..Len(lines) : WellFormed(lines[i]) })
            /\ \A i \in 1..Len(lines) : Malformed(lines[i]) =>
                    /\ Cardinality({ k \in 1..Len(errors) :
                                        errors[k].line_num = i }) = 1
                    /\ \A k \in 1..Len(errors) : errors[k].line_num = i =>
                            errors[k].kind = "Invalid format"

\* C23 witness: line 6 names an unknown designation or an impossible date,
\* line 7 is well-formed and is the one entry that loads, and the validator
\* has an error for line 6.
C23_Witness ==
    /\ last.op = "validate"
    /\ Len(files[last.year].lines) = 7
    /\ \/ UnknownDesignation(files[last.year].lines[6])
       \/ UnparseableDate(files[last.year].lines[6])
    /\ WellFormed(files[last.year].lines[7])
    /\ Cardinality(DOMAIN load_year_data(files, last.year)) = 1
    /\ \E k \in 1..Len(last.result) : last.result[k].line_num = 6

\* the designation of the last well-formed line for date d
LastLineFor(lines, d) ==
    LET at == CHOOSE i \in 1..Len(lines) :
                /\ WellFormed(lines[i]) /\ _parse_log_line(lines[i]).date = d
                /\ \A j \in (i + 1)..Len(lines) :
                        ~(WellFormed(lines[j])
                            /\ _parse_log_line(lines[j]).date = d)
    IN  _parse_log_line(lines[at]).designation

HasLineFor(lines, d) ==
    \E i \in 1..Len(lines) :
        WellFormed(lines[i]) /\ _parse_log_line(lines[i]).date = d

\* C24: when a year file holds a malformed entry line, a comment line below
\* the header or two lines for one date, the next set_designation or
\* successful delete_designation on that year rewrites the file as the header
\* and well-formed entry lines only, one line per date, a date keeping the
\* designation of its last line; a delete_designation that returns False
\* leaves the file exactly as it was.
C24_RewriteDropsEdits ==
    /\ (last.op = "set" \/ (last.op = "delete" /\ last.result = TRUE)) =>
            LET old == prev[year(last.date)].lines
                new == files[year(last.date)].lines
            IN  /\ SubSeq(new, 1, 5) = Header(year(last.date))
                /\ \A i \in 6..Len(new) : WellFormed(new[i])
                /\ \A i \in 6..(Len(new) - 1) :
                        _parse_log_line(new[i]).date
                            < _parse_log_line(new[i + 1]).date
                /\ \A i \in 6..Len(new) :
                        LET d == _parse_log_line(new[i]).date
                        IN  (d # last.date /\ HasLineFor(old, d)) =>
                                _parse_log_line(new[i]).designation
                                    = LastLineFor(old, d)
                /\ \A i \in 1..Len(old) :
                        (WellFormed(old[i])
                            /\ _parse_log_line(old[i]).date # last.date) =>
                                HasLineFor(new, _parse_log_line(old[i]).date)
    /\ (last.op = "delete" /\ last.result = FALSE) => files = prev

\* C24 witness: lines 6 and 7 were two lines for one date with different
\* designations; a set_designation of another date of that year left one
\* line for it, with the designation of line 7.
C24_Witness ==
    /\ last.op = "set" /\ ~last.auto_weekend
    /\ LET old == prev[year(last.date)].lines
           new == files[year(last.date)].lines
       IN  /\ Len(old) = 7
           /\ WellFormed(old[6]) /\ WellFormed(old[7])
           /\ _parse_log_line(old[6]).date = _parse_log_line(old[7]).date
           /\ _parse_log_line(old[6]).designation
                # _parse_log_line(old[7]).designation
           /\ _parse_log_line(old[7]).date # last.date
           /\ Len(new) = 7
           /\ \E i \in 6..7 :
                /\ _parse_log_line(new[i]).date = _parse_log_line(old[7]).date
                /\ _parse_log_line(new[i]).designation
                        = _parse_log_line(old[7]).designation

(***************************************************************************)
(* Further properties of the month view (SpecRead)                         *)
(***************************************************************************)
\* the visible text of a cell: its tokens that are not escape sequences
RECURSIVE Visible(_)
Visible(cell) ==
    IF cell = <<>> THEN <<>>
    ELSE IF Head(cell) \in {" ", "W"} \cup { Digits[i] : i \in 1..10 }
                            \cup { short_code(x) : x \in Designations }
         THEN <<Head(cell)>> \o Visible(Tail(cell))
         ELSE Visible(Tail(cell))

\* C25: rendering January of year Y, the leading cells that fall in December
\* are looked up in the data of year Y-1; rendering December of year Y, the
\* trailing cells that fall in January are looked up in the data of year
\* Y+1; for every cell of the grid the designation shown is the explicit
\* entry stored for that date in the date's own year file, if there is one.
C25_CellsFromOwnYear ==
    last.op = "render" =>
        LET data == [y \in Years |-> load_year_data(files, y)]
        IN  \A k \in 1..GridRows(last.result), i \in 1..7 :
                LET d == GridDate(last.year, last.month, k, i)
                IN  Visible(GridDesCell(last.result, k, i)) =
                        IF d \in DOMAIN data[year(d)]
                        THEN <<" ", short_code(data[year(d)][d]), " ">>
                        ELSE <<" ", " ", " ">>

\* C25 witness: the January view shows, under a December day of its first
\* week, the letter of the entry the file of the year before holds.
C25_Witness ==
    /\ last.op = "render" /\ last.month = 1
    /\ \E i \in 1..7 :
            /\ year(GridDate(last.year, 1, 1, i)) = last.year - 1
            /\ Explicit(files, GridDate(last.year, 1, 1, i))
            /\ ShowsLetter(GridDesCell(last.result, 1, i))

GridDayCell(rendered, k, i) == rendered[3 + 2 * k][i + 1]

\* the day number of the cell is bold or underlined
Emphasized(cell) ==
    \E j \in 1..Len(cell) : cell[j] \in {COLOR_BOLD, Underline}

\* C28: render_month emphasizes the day given by its highlight_day argument
\* and no day when highlight_day is None; render_current_month with
\* highlight_today = False renders the month without emphasizing today.
\* Violated: render_month never reads highlight_day; it emphasizes the cell
\* whose date is date.today(), whatever the argument.
C28_HighlightDayEmphasized ==
    /\ last.op = "render" =>
            \A k \in 1..GridRows(last.result), i \in 1..7 :
                LET d == GridDate(last.year, last.month, k, i)
                IN  Emphasized(GridDayCell(last.result, k, i))
                        <=> (month(d) = last.month
                                /\ day(d) \in last.highlight_day)
    /\ (last.op = "render_current" /\ ~last.highlight_today) =>
            \A k \in 1..GridRows(last.result), i \in 1..7 :
                ~Emphasized(GridDayCell(last.result, k, i))

(***************************************************************************)
(* The overwrite prompt of the set command (SpecCli)                       *)
(***************************************************************************)
\* some year file holds an entry for d
StoredSomewhere(fs, d) == \E y \in Years : d \in FileDates(fs, y)

\* C29: without force, a set command for a date that already has an entry
\* (an auto-populated Weekend entry included) changes no file unless the
\* operator answers y or yes to the overwrite prompt; with force the
\* designation is set without a prompt.  Violated: after
\* set_designation(2024-12-30) the Weekend entry of 2025-01-04 stands in
\* 2024.log (C1), the handler looks in 2025.log only, asks nothing and
\* writes 2025.log.
C29_PromptBeforeOverwrite ==
    (last.op = "handle_set" /\ last.result = 0) =>
        /\ (~last.force /\ StoredSomewhere(prev, last.date)
                /\ ~(last.prompted /\ lower(last.response) \in {"y", "yes"}))
                => files = prev
        /\ last.force =>
                /\ ~last.prompted
                /\ Explicit(files, last.date)
                /\ Entry(files, last.date) = last.designation

(***************************************************************************)
(* The report formatters on a statistics dict (SpecReport).                *)
(* The dict has the shape get_period_stats returns: actual_days is the sum *)
(* of the counts, requested_days is not below it, the percentages are      *)
(* those of the counts.                                                    *)
(***************************************************************************)
StatsFromCounts(counts, uncovered) ==
    LET actual_days == SumCounts(counts, Len(LocationDesignation))
    IN  [start_date     |-> FirstDate,
         end_date       |-> FirstDate + (actual_days + uncovered) - 1,
         requested_days |-> actual_days + uncovered,
         actual_days    |-> actual_days,
         total_days     |-> actual_days,
         counts         |-> counts,
         percentages    |-> [x \in Designations |->
                                _format_percentage(counts[x], actual_days)]]

StatsInputs ==
    { StatsFromCounts(counts, uncovered) :
        counts \in [Designations -> 0..MaxCount], uncovered \in 0..1 }

InitReport ==
    /\ files = EmptyDirectory
    /\ prev = files
    /\ last \in { [op |-> "stats_input", result |-> stats] :
                    stats \in StatsInputs }
    /\ ops = 0
    /\ invocation = [p \in Processes |-> NotStarted]
    /\ saves = <<>>
    /\ codec = CodecIdle
    /\ interactive = NoSession

report ==
    /\ last.op = "stats_input"
    /\ files' = files
    /\ Record([op |-> "report", stats |-> last.result,
               result |-> format_stats_report(last.result)])

work_days_summary ==
    /\ last.op = "stats_input"
    /\ files' = files
    /\ Record([op |-> "work_summary", stats |-> last.result,
               result |-> generate_work_days_summary(last.result)])

NextReport == report \/ work_days_summary

SpecReport == InitReport /\ [][NextReport]_vars

\* the place of a designation in the enum declaration
EnumIndex(x) == CHOOSE k \in 1..Len(LocationDesignation) : LocationDesignation[k] = x

\* the lines of a report that are rows of the breakdown table
IsBreakdownRow(line) ==
    /\ Len(line) >= 4 /\ line[1] = " (" /\ line[3] = ") "
    /\ \E x \in Designations :
            line[2] = short_code(x) /\ line[4] = description(x)

RowDesignation(line) == CHOOSE x \in Designations : line[2] = short_code(x)

BreakdownRows(lines) == SelectSeq(lines, IsBreakdownRow)

\* C26: format_stats_report lists all 7 designations, each exactly once, in
\* order of descending count, and designations with equal counts appear in
\* enum declaration order.
C26_BreakdownOrder ==
    last.op = "report" =>
        LET rows == BreakdownRows(last.result)
            D(i) == RowDesignation(rows[i])
        IN  /\ Len(rows) = Cardinality(Designations)
            /\ Cardinality(Designations) = 7
            /\ { D(i) : i \in 1..Len(rows) } = Designations
            /\ \A i, j \in 1..Len(rows) : i < j =>
                    /\ last.stats.counts[D(i)] >= last.stats.counts[D(j)]
                    /\ last.stats.counts[D(i)] = last.stats.counts[D(j)]
                            => EnumIndex(D(i)) < EnumIndex(D(j))

\* C26 witness: a report in which OTHER and VACATION, with one day each,
\* stand above HOME and LAB, which have none.
C26_Witness ==
    /\ last.op = "report"
    /\ last.stats.counts["OTHER"] > last.stats.counts["HOME"]
    /\ last.stats.counts["VACATION"] = last.stats.counts["OTHER"]
    /\ last.stats.counts["HOME"] = last.stats.counts["LAB"]
    /\ RowDesignation(BreakdownRows(last.result)[1]) = "VACATION"

\* the lines of a text that begin with the label
LinesWith(lines, label) ==
    { i \in 1..Len(lines) : Len(lines[i]) > 0 /\ lines[i][1] = label }

WorkDays(stats) ==
    stats.counts["HOME"] + stats.counts["LAB"] + stats.counts["TRAVEL"]

\* the text is the percentage count / total to one decimal place
IsPercentageOf(text, count, total) ==
    \E t \in {(1000 * count) \div total, (1000 * count) \div total + 1} :
        /\ 2 * (1000 * count - t * total) <= total
        /\ 2 * (t * total - 1000 * count) <= total
        /\ text = Decimal(t \div 10) \o <<".">> \o Decimal(t % 10) \o <<"%">>

\* the line gives the count, the work days and the percentage of work days
GivesCountAndPercentage(line, label, count, work_days) ==
    \E k \in 1..Len(line) :
        /\ SubSeq(line, 1, k) =
                <<label>> \o RightAlign(Decimal(count), 2) \o <<"/">>
                    \o Decimal(work_days) \o <<" (">>
        /\ line[Len(line)] = ")"
        /\ IsPercentageOf(SubSeq(line, k + 1, Len(line) - 1), count, work_days)

\* C27 as stated: for every stats input, one with zero Home/Lab/Travel days
\* included, the output of generate_work_days_summary contains the
\* Lab+Travel line and the Lab+Travel+Home line.  Violated: with no work day
\* both lines are left out.
C27_CombinedLinesAlways ==
    last.op = "work_summary" =>
        /\ LinesWith(last.result, "   Lab + Travel: ") # {}
        /\ LinesWith(last.result, "Lab+Travel+Home: ") # {}

\* C27 amended: for a stats input with at least one Home, Lab or Travel day
\* the output contains the Lab+Travel line and the Lab+Travel+Home line, each
\* once, giving the count and its percentage of the work days; for an input
\* with no such day it contains neither line; no division by zero occurs.
C27_CombinedLinesForWorkDays ==
    last.op = "work_summary" =>
        LET lt  == LinesWith(last.result, "   Lab + Travel: ")
            lth == LinesWith(last.result, "Lab+Travel+Home: ")
            w   == WorkDays(last.stats)
        IN  IF w = 0 THEN lt = {} /\ lth = {}
            ELSE /\ Cardinality(lt) = 1 /\ Cardinality(lth) = 1
                 /\ \A i \in lt :
                        GivesCountAndPercentage(last.result[i],
                            "   Lab + Travel: ",
                            last.stats.counts["LAB"]
                                + last.stats.counts["TRAVEL"], w)
                 /\ \A i \in lth :
                        GivesCountAndPercentage(last.result[i],
                            "Lab+Travel+Home: ", w, w)

\* C27 witness: a summary of a dict with Home, Lab and Travel days, whose
\* Lab+Travel count is below its work days.
C27_Witness ==
    /\ last.op = "work_summary"
    /\ last.stats.counts["HOME"] > 0
    /\ last.stats.counts["LAB"] > 0
    /\ last.stats.counts["TRAVEL"] > 0
    /\ LinesWith(last.result, "   Lab + Travel: ") # {}

(***************************************************************************)
(* interactive.py: InteractiveMode                                         *)
(* A command line is given as it is after strip().split(): the command     *)
(* word ("" for a blank line) and the list of argument words, each a       *)
(* sequence of characters.  The operator types lower-case command words,   *)
(* upper-case designations and unsigned numbers.                           *)
(***************************************************************************)
\* InteractiveMode.__init__
NewSession ==
    [pc |-> "constructed", running |-> TRUE, force_mode |-> FALSE,
     prompts |-> 0, event |-> "none", seen |-> {}]

\* what a handler leaves behind: the year files, the two flags of the
\* session, and the exception that leaves the handler ("" when it returns)
Effect(fs, session, raised) ==
    [files |-> fs, running |-> session.running,
     force_mode |-> session.force_mode, raised |-> raised]

\* parse_designation: the full name first, then the short code; None is {}
parse_designation(des_str) ==
    IF \E x \in Designations : name(x) = des_str
    THEN { CHOOSE x \in Designations : name(x) = des_str }
    ELSE { x \in Designations : <<short_code(x)>> = des_str }

\* the operator's answer to the overwrite prompt of cmd_set: a line, end of
\* input (EOFError) or Ctrl-C (KeyboardInterrupt)
PromptAnswers == Responses \cup {"EOFError", "KeyboardInterrupt"}

cmd_set(fs, session, args, response) ==
    IF Len(args) # 2 THEN Effect(fs, session, "")
    ELSE
    LET date_obj    == strptime_ymd(args[1])
        designation == parse_designation(args[2])
    IN  IF ~date_obj.ok \/ designation = {} THEN Effect(fs, session, "")
        ELSE
        LET loaded   == load_year_data_files(fs, year(date_obj.date))
            prompted == /\ ~session.force_mode
                        /\ date_obj.date
                            \in DOMAIN load_year_data(fs, year(date_obj.date))
        IN  IF prompted /\ response \in {"EOFError", "KeyboardInterrupt"}
            THEN Effect(loaded, session, response)
            ELSE IF prompted /\ lower(response) \notin {"y", "yes"}
            THEN Effect(loaded, session, "")
            ELSE Effect(set_designation_files(fs, date_obj.date,
                            CHOOSE x \in designation : TRUE, TRUE),
                        session, "")

cmd_get(fs, session, args) ==
    IF Len(args) # 1 THEN Effect(fs, session, "")
    ELSE LET date_obj == strptime_ymd(args[1])
         IN  IF ~date_obj.ok THEN Effect(fs, session, "")
             ELSE Effect(load_year_data_files(fs, year(date_obj.date)),
                         session, "")

\* without arguments the current month is rendered; with one argument the
\* month or year it names is rendered, ValueError and IndexError being
\* caught in the handler; otherwise the usage is printed
cmd_calendar(fs, session, args, today) ==
    IF args = <<>>
    THEN Effect(render_month_files(fs, year(today), month(today)),
                session, "")
    ELSE Effect(fs, session, "")

\* without arguments the last 30 days are reported; with arguments the
\* statistics of other periods are read and printed, or an error is
\* printed
cmd_stats(fs, session, args, today) ==
    IF args = <<>>
    THEN Effect(get_period_stats_files(fs, today - 29, today), session, "")
    ELSE Effect(fs, session, "")

\* start_date = end_date - timedelta(days=days-1) raises OverflowError when
\* it leaves the range of date, whose first ordinal is 1
cmd_work_summary(fs, session, args, today) ==
    IF args # <<>> /\ \E i \in 1..Len(args[1]) : ~IsDigit(args[1][i])
    THEN Effect(fs, session, "")
    ELSE LET days       == IF args = <<>> THEN 30 ELSE ToInt(args[1])
             start_date == today - (days - 1)
         IN  IF start_date < 1 THEN Effect(fs, session, "OverflowError")
             ELSE Effect(get_period_stats_files(fs, start_date, today),
                         session, "")

cmd_validate(fs, session, args, today) ==
    IF args = <<>>
    THEN Effect(validate_data_files(fs, year(today)), session, "")
    ELSE Effect(fs, session, "")

cmd_help(fs, session, args) == Effect(fs, session, "")

cmd_force(fs, session, args) ==
    LET on  == { <<"o", "n">>, <<"1">>, <<"t", "r", "u", "e">>,
                 <<"y", "e", "s">> }
        off == { <<"o", "f", "f">>, <<"0">>, <<"f", "a", "l", "s", "e">>,
                 <<"n", "o">> }
    IN  [Effect(fs, session, "") EXCEPT !.force_mode =
            IF args = <<>> THEN ~session.force_mode
            ELSE IF args[1] \in on THEN TRUE
            ELSE IF args[1] \in off THEN FALSE
            ELSE session.force_mode]

\* a cmd_quit that leaves self.running as it is
cmd_quit_keeps_running(fs, session, args) == Effect(fs, session, "")

cmd_quit(fs, session, args) ==
    [Effect(fs, session, "") EXCEPT !.running = FALSE]

\* the dispatch table of process_command
commands ==
    { <<"calendar", "cmd_calendar">>, <<"cal", "cmd_calendar">>,
      <<"set", "cmd_set">>, <<"get", "cmd_get">>,
      <<"stats", "cmd_stats">>,
      <<"work-summary", "cmd_work_summary">>, <<"ws", "cmd_work_summary">>,
      <<"validate", "cmd_validate">>, <<"val", "cmd_validate">>,
      <<"force", "cmd_force">>,
      <<"help", "cmd_help">>, <<"h", "cmd_help">>,
      <<"quit", "cmd_quit">>, <<"exit", "cmd_quit">>, <<"q", "cmd_quit">> }

Handler(command) == (CHOOSE entry \in commands : entry[1] = command)[2]

Call(handler, fs, session, args, today, response) ==
    CASE handler = "cmd_calendar"     -> cmd_calendar(fs, session, args, today)
      [] handler = "cmd_set"          -> cmd_set(fs, session, args, response)
      [] handler = "cmd_get"          -> cmd_get(fs, session, args)
      [] handler = "cmd_stats"        -> cmd_stats(fs, session, args, today)
      [] handler = "cmd_work_summary" ->
            cmd_work_summary(fs, session, args, today)
      [] handler = "cmd_validate"     -> cmd_validate(fs, session, args, today)
      [] handler = "cmd_force"        -> cmd_force(fs, session, args)
      [] handler = "cmd_help"         -> cmd_help(fs, session, args)
      [] handler = "cmd_quit"         -> cmd_quit(fs, session, args)

\* process_command: what the handler leaves behind, and what happened: the
\* line was blank, the command unknown, the handler raised an Exception
\* (caught here), a KeyboardInterrupt left the handler (not an Exception: it
\* leaves process_command too), the command was a quit command, or another
\* command ran to its end
process_command(fs, session, command_line, today, response) ==
    LET command == lower(command_line.command)
        args    == command_line.args
    IN  IF command = ""
        THEN [effect |-> Effect(fs, session, ""), event |-> "empty"]
        ELSE IF \E entry \in commands : entry[1] = command
        THEN CHOOSE outcome \in
                { [effect |-> effect,
                   event  |-> IF effect.raised = "KeyboardInterrupt"
                              THEN "interrupt"
                              ELSE IF effect.raised # "" THEN "error"
                              ELSE IF Handler(command) = "cmd_quit"
                              THEN "quit"
                              ELSE "ok"] :
                  effect \in { Call(Handler(command), fs, session, args,
                                    today, response) } } : TRUE
        ELSE [effect |-> Effect(fs, session, ""), event |-> "unknown"]

(***************************************************************************)
(* An interactive session (SpecInteractive): run() on a new data           *)
(* directory.  Ctrl-C arrives while the program waits at a prompt.         *)
(***************************************************************************)
CommandLine(command, args) == [command |-> command, args |-> args]

CommandLines ==
    { CommandLine(command, <<>>) :
        command \in {"", "bogus", "cal", "stats", "ws", "val", "force",
                     "help", "quit", "exit", "q"} }
    \cup { CommandLine("ws", <<Decimal(1000000)>>) }
    \cup { CommandLine("get", <<isoformat(FirstDate)>>) }
    \cup { CommandLine("set", <<isoformat(FirstDate), name(designation)>>) :
            designation \in InputDesignations }

\* the days on which the session takes place
SessionDays == {FirstDate, FirstDate + NumDates - 1}

InitInteractive ==
    /\ files = EmptyDirectory
    /\ prev = files
    /\ last = NoOp
    /\ ops = 0
    /\ invocation = [p \in Processes |-> NotStarted]
    /\ saves = <<>>
    /\ codec = CodecIdle
    /\ interactive = NewSession

\* the events after which the loop has to go on
Continuing == {"unknown", "error", "interrupt"}

\* one more prompt has been answered; seen keeps the Continuing events
Happened(event) ==
    [interactive EXCEPT !.prompts = @ + 1, !.event = event,
                        !.seen = @ \cup ({event} \cap Continuing)]

\* run() up to the loop: the menu and the calendar of the current month
run_start(today) ==
    /\ interactive.pc = "constructed"
    /\ interactive' = [interactive EXCEPT !.pc = "while"]
    /\ files' = render_month_files(files, year(today), month(today))
    /\ UNCHANGED <<prev, last, ops, invocation, saves, codec>>

\* one turn of the loop in which input("tracker> ") returns a line
read_command(command_line, today, response) ==
    /\ interactive.pc = "while"
    /\ interactive.running
    /\ interactive.prompts < MaxPrompts
    /\ \E outcome \in { process_command(files, interactive, command_line,
                                         today, response) } :
           /\ files' = outcome.effect.files
           /\ interactive' =
                [Happened(outcome.event) EXCEPT
                    !.running = outcome.effect.running,
                    !.force_mode = outcome.effect.force_mode]
    /\ UNCHANGED <<prev, last, ops, invocation, saves, codec>>

\* one turn of the loop in which input("tracker> ") raises KeyboardInterrupt
keyboard_interrupt ==
    /\ interactive.pc = "while"
    /\ interactive.running
    /\ interactive.prompts < MaxPrompts
    /\ interactive' = Happened("interrupt")
    /\ UNCHANGED <<files, prev, last, ops, invocation, saves, codec>>

\* the turn of the loop in which input("tracker> ") raises EOFError: break
end_of_input ==
    /\ interactive.pc = "while"
    /\ interactive.running
    /\ interactive.prompts < MaxPrompts
    /\ interactive' = [Happened("eof") EXCEPT !.pc = "returned"]
    /\ UNCHANGED <<files, prev, last, ops, invocation, saves, codec>>

\* the loop condition is false: run() returns
loop_exit ==
    /\ interactive.pc = "while"
    /\ ~interactive.running
    /\ interactive' = [interactive EXCEPT !.pc = "returned"]
    /\ UNCHANGED <<files, prev, last, ops, invocation, saves, codec>>

\* date.today() is read by the calendar, statistics, work summary and
\* validate commands only
SessionTodayChoices(command_line) ==
    IF command_line.command \in {"cal", "stats", "ws", "val"}
    THEN SessionDays ELSE {FirstDate}

\* input() is called in a handler only by cmd_set
AnswerChoices(command_line) ==
    IF command_line.command = "set" THEN PromptAnswers ELSE {""}

Prompt ==
    \/ \E command_line \in CommandLines :
         \E today \in SessionTodayChoices(command_line),
            response \in AnswerChoices(command_line) :
                read_command(command_line, today, response)
    \/ keyboard_interrupt
    \/ end_of_input

NextInteractive ==
    \/ \E today \in SessionDays : run_start(today)
    \/ Prompt
    \/ loop_exit

SpecInteractive == InitInteractive /\ [][NextInteractive]_vars

\* C30: in interactive mode the loop is back at its prompt, about to read
\* the next command, after an unknown command, after a command whose
\* handler raises an exception and after a keyboard interrupt; run()
\* returns only after a quit, exit or q command or at the end of input;
\* after a quit command no further command is read.
C30_LoopContinuesUntilQuit ==
    [][/\ interactive'.event \in Continuing =>
            interactive'.pc = "while" /\ interactive'.running
       /\ interactive.pc # "returned" /\ interactive'.pc = "returned" =>
            interactive'.event \in {"quit", "eof"}
       /\ interactive.event = "quit" =>
            interactive'.prompts = interactive.prompts]_vars

\* C30 witness: run() has returned after a quit command, having gone on
\* after an unknown command, a handler's exception and a keyboard
\* interrupt.
C30_Witness ==
    /\ interactive.pc = "returned"
    /\ interactive.event = "quit"
    /\ Continuing \subseteq interactive.seen

=============================================================================
